---- MODULE Spec2Model ----
(***************************************************************************)
(* Reconnectable event streaming of the DSA Copilot backend:               *)
(*   api/stream_hub.py  StreamJob (append / finish / subscribe) and        *)
(*                      StreamHub.get_or_create                            *)
(*   api/main.py        stream_agent_events, stream_with_final_result and  *)
(*                      the hub runners of company_matcher_stream          *)
(*                      (run_job) and company_researcher_stream (runner)   *)
(* Tasks are asyncio tasks; a step of the model is the code a task runs    *)
(* between two suspension points, with lock acquisition a step of its own. *)
(***************************************************************************)
EXTENDS Integers, Sequences, FiniteSets, TLC

\* ---------------------------------------------------------------- bounds
MaxEngineEvents == 2      \* longest trace the engine emits in one run
MaxCursor == 1            \* largest cursor passed to subscribe
MaxJobs == 2              \* StreamJob objects that can be allocated
MaxLiveEvents == 1        \* longest engine trace of the runs checked for liveness
MaxJobCalls == 2          \* append calls and finish calls made on a job used directly
MaxTokens == 3            \* token callbacks the engine makes on a callback handler
MaxTicks == 2             \* half TTL periods that pass while the tool calls run

\* ------------------------------------------------------------ input sets
Callers == {"c1", "c2"}                   \* HTTP requests / subscriber tasks
Keys == {"matcher", "company_researcher"} \* job keys, one per hub endpoint
JobIds == 1..MaxJobs
NoJob == 0
Free == "free"
Cursors == 0..MaxCursor

\* Engine trace records (astream_events v2): the fields the code reads.
\* output is the kind of data.output: a dict whose report field is valid
\* JSON text ("valid"), unparsable text ("invalid"), or not text ("badtype").
on_chat_model_start ==
    [event |-> "on_chat_model_start", root |-> FALSE, name |-> "ChatModel",
     langgraph_node |-> TRUE, output |-> "none"]
on_chain_end_root(p) ==
    [event |-> "on_chain_end", root |-> TRUE, name |-> "LangGraph",
     langgraph_node |-> FALSE, output |-> p]
Payloads == {"valid", "invalid", "badtype"}
EngineRecords == {on_chat_model_start} \cup {on_chain_end_root(p) : p \in Payloads}

RECURSIVE SeqsUpTo(_, _)
SeqsUpTo(S, n) ==
    IF n = 0 THEN {<<>>}
    ELSE LET shorter == SeqsUpTo(S, n - 1)
         IN  shorter \cup {Append(s, x) : s \in {t \in shorter : Len(t) = n - 1}, x \in S}

\* Tool records, a root completion under any chain name, and the root output
\* {"ok": true}: a dict that has no report field ("ok").
on_tool_start(n) ==
    [event |-> "on_tool_start", root |-> FALSE, name |-> n,
     langgraph_node |-> TRUE, output |-> "none"]
on_tool_end(n, o) ==
    [event |-> "on_tool_end", root |-> FALSE, name |-> n,
     langgraph_node |-> TRUE, output |-> o]
on_chain_end_named(n, p) ==
    [event |-> "on_chain_end", root |-> TRUE, name |-> n,
     langgraph_node |-> FALSE, output |-> p]
ToolNames == {"search", "web_search"}
AllToolNames == ToolNames \cup {"finish_matching"}
NameParts == {"", "web_", "finish_matching"}
ToolOutputs == {"text", "text with https://example.com"}
DictOutputs == Payloads \cup {"ok"}

\* The runs of the end-to-end scenario: a tool call, then the terminal
\* completion, then the end of the trace or an exception.
ScenarioScripts ==
    {[records |-> <<on_tool_start(n), on_tool_end(n, o), on_chain_end_named(r, p)>>,
      raises |-> b] :
        n \in ToolNames, o \in ToolOutputs, r \in {"LangGraph", "mock"},
        p \in {"ok", "valid"}, b \in BOOLEAN}

\* The runs whose metrics are looked at: a model call, two tool calls with
\* any of the tools, the terminal completion.
MetricsScripts ==
    {[records |-> <<on_chat_model_start, on_tool_end(n, o), on_tool_end(m, o),
                    on_chain_end_named("LangGraph", p)>>,
      raises |-> b] :
        n \in AllToolNames, m \in AllToolNames, o \in ToolOutputs,
        p \in {"ok", "valid"}, b \in BOOLEAN}

\* One engine run: the records it yields, then whether it raises or ends.
Scripts == [records : SeqsUpTo(EngineRecords, MaxEngineEvents), raises : BOOLEAN]

VARIABLES
    script,        \* what the engine does when a runner drives it
    reqKey,        \* reqKey[c]: the job key request c derives, "none": no request
    cursor,        \* cursor[c]: the cursor argument of c's subscribe call
    hubLock,       \* StreamHub._lock: Free or the caller holding it
    hubJobs,       \* StreamHub._jobs: key -> job id, NoJob when absent
    nJobs,         \* StreamJob objects allocated = runner tasks created
    jobKey,        \* jobKey[j]: key whose runner drives job j
    events,        \* StreamJob.events
    done,          \* StreamJob.done
    jobLock,       \* StreamJob._cond's lock: Free, "runner" or a caller
    finishCalls,   \* number of job.finish() calls made on job j
    error,         \* StreamJob.error
    rpc,           \* runner task position
    pos,           \* engine records consumed by stream_agent_events
    phase,         \* stream_with_final_result position
    tail,          \* chunks stream_with_final_result yields after extraction
    final_output,  \* stream_with_final_result.final_output
    extracted,     \* what extract_result did: "no", "result", "none", "throw"
    step_id,       \* runner's step_id is set
    chunk,         \* chunk the runner is about to append
    flush,         \* final metrics flush: "no", "skipped", "ok", "raised"
    engineRuns,    \* engineRuns[j]: graph.astream_events / graph.ainvoke calls
    pc,            \* caller position
    job,           \* job returned by get_or_create
    idx,           \* subscribe's idx
    to_yield,      \* subscribe's to_yield, not yet handed on
    sdone,         \* subscribe's local copy of done
    recv,          \* chunks handed to the consumer so far
    attachedDone,  \* job.done at the moment subscribe was entered
    parent_run_id,    \* the engine's run tree: parent_run_id[r] or NoRun
    started,          \* the label in the prompt run r was started with
    current_question, \* StreamingCallbackHandler.current_question
    run_to_question,  \* StreamingCallbackHandler.run_to_question
    run_to_parent,    \* StreamingCallbackHandler.run_to_parent
    queue,            \* StreamingCallbackHandler.queue
    produced,         \* the token callbacks made so far: run and content
    args,             \* args[t]: queries and max_results of tool call t
    tpc,              \* tool call position: "ready", "awaiting", "returned"
    qi,               \* index of the query tool call t is working on
    redis,            \* the Redis store: cache key -> entry or NoEntry
    redis_up,         \* the Redis server answers
    outage,           \* Redis has failed to answer at some time so far
    client,           \* cache._client is set
    now,              \* seconds since the first tool call
    lookups,          \* lookups[t]: the get_cached calls of t and their results
    api_calls,        \* the client.search calls made so far
    uses,             \* uses[t]: the responses whose results t has read
    spos,             \* stream_research position
    research_task,    \* the task running run_research: "none", "running", "done"
    research_outcome, \* what run_research left in final_result / research_error
    questions_seen,   \* stream_research.questions_seen
    last_status,      \* stream_research.last_status
    sent,             \* the units stream_research has yielded
    walk_key,         \* _get_question_for_run: run_key of the call in progress
    walk_parent,      \* _get_question_for_run: parent_key of the call in progress
    walk_pc,          \* its position: "idle", "loop", "returned"
    walk_current,     \* its local current
    walk_visited,     \* its local visited
    walk_order,       \* the runs the loop body has visited, in order
    walk_result,      \* the value it returned
    request,          \* request[c]: the body of company-matcher request c
    http_response,    \* http_response[c]: "none", "400", "500" or "stream"
    attached,         \* attached[c]: the hub job the response of c subscribes to
    jobs_by_key,      \* stream_hub._jobs for the matcher keys
    job_done,         \* job_done[j]: done flag of matcher job j
    created,          \* matcher jobs created so far
    metrics,          \* metrics[j]: llm_calls, search_calls, sources of runner j
    flushed           \* flushed[j]: the update_step_metrics calls of runner j

inputVars == <<script, reqKey, cursor>>
hubVars == <<hubLock, hubJobs, nJobs, jobKey>>
jobVars == <<events, done, jobLock, finishCalls, error>>
runnerVars == <<rpc, pos, phase, tail, final_output, extracted, step_id, chunk, flush,
                engineRuns>>
subVars == <<pc, job, idx, to_yield, sdone, recv, attachedDone>>
handlerVars == <<parent_run_id, started, current_question, run_to_question,
                 run_to_parent, queue, produced>>
cacheVars == <<args, tpc, qi, redis, redis_up, outage, client, now,
               lookups, api_calls, uses>>
researchVars == <<spos, research_task, research_outcome, questions_seen, last_status, sent>>
walkVars == <<walk_key, walk_parent, walk_pc, walk_current, walk_visited, walk_order,
              walk_result>>
matcherVars == <<request, http_response, attached, jobs_by_key, job_done, created>>
metricVars == <<metrics, flushed>>
extraVars == <<researchVars, walkVars, matcherVars, metricVars>>
sideVars == <<handlerVars, cacheVars, extraVars>>
streamVars == <<inputVars, hubVars, jobVars, runnerVars, subVars>>
vars == <<streamVars, sideVars>>

\* --------------------------------------- StreamingCallbackHandler: names
\* Runs of one research execution: the graph, a node below it, two model
\* runs, and two tool runs, u called by t; a model run can be below a tool
\* run (web_search calls a model to summarise).
ChainRuns == {"graph", "node"}
LlmRuns == {"a", "b"}
ToolRuns == {"t", "u"}
Runs == ChainRuns \cup LlmRuns \cup ToolRuns
NoRun == "no run"
\* The questions _extract_question_from_prompt finds in prompts; NoLabel is
\* None: the prompt holds no question, or the key is not in the dict.
Labels == {"A", "B"}
NoLabel == "None"
Unstarted == "unstarted"
Tokens == {"x", "y"}
QueueMaxSize == 1000

\* ------------------------------------------------- Tavily cache: names
\* Queries are texts, character by character.
Queries == {<<"a">>, <<" ", "A">>, <<"b">>}
DefaultMaxResults == 3
MaxResultsValues == {DefaultMaxResults, 5}
ToolCalls == {"t1", "t2"}
\* client.get answers None for a key it does not hold
NoEntry == [response |-> 0, expires |-> 0]
CACHE_TTL == 6 * 60 * 60

\* str.lower and str.strip on the characters the queries are made of
lower(ch) == IF ch = "A" THEN "a" ELSE IF ch = "B" THEN "b" ELSE ch
RECURSIVE lstrip(_)
lstrip(q) == IF q # <<>> /\ Head(q) = " " THEN lstrip(Tail(q)) ELSE q
RECURSIVE rstrip(_)
rstrip(q) ==
    IF q # <<>> /\ q[Len(q)] = " " THEN rstrip(SubSeq(q, 1, Len(q) - 1)) ELSE q
strip(q) == rstrip(lstrip(q))
normalized(q) == [i \in 1..Len(strip(q)) |-> lower(strip(q)[i])]

\* make_cache_key with the query taken as it is
make_cache_key_raw(query, max_results) == <<query, max_results>>

\* make_cache_key: the digest of f"{normalized}:{max_results}"; the 64 bits
\* kept of sha256 are taken to be free of collisions
make_cache_key(query, max_results) == <<normalized(query), max_results>>

CacheKeys ==
    {make_cache_key(q, m) : q \in Queries, m \in MaxResultsValues}
        \cup {make_cache_key_raw(q, m) : q \in Queries, m \in MaxResultsValues}

\* ------------------------------------------ company_matcher_stream: names
\* The text fields of a request, as sequences of characters.  session_id is
\* empty when the client sends none.
SessionIds == {<<>>, <<"s">>, <<"s", ":", "a">>}
CompanyNames == {<<"b">>, <<"B", " ">>, <<"a", ":", "b">>, <<" ">>}
Countries == {<<"c">>, <<" ">>}
MatcherRequests ==
    [session_id : SessionIds, company_name : CompanyNames,
     country_of_establishment : Countries]
NoRequest == [session_id |-> <<>>, company_name |-> <<>>, country_of_establishment |-> <<>>]

\* job_key = f"matcher:{session_id}:{name.strip().lower()}:{country.strip().lower()}"
job_key(r) ==
    <<"matcher", ":">> \o r.session_id \o <<":">> \o normalized(r.company_name)
        \o <<":">> \o normalized(r.country_of_establishment)
MatcherKeys == {job_key(r) : r \in MatcherRequests}

\* llm_calls = 0, search_calls = 0, sources_collected = []
NoMetrics == [llm_calls |-> 0, search_calls |-> 0, sources |-> 0]

\* no tool call is made: the component is idle
CacheIdle ==
    /\ args = [t \in ToolCalls |-> [queries |-> <<>>, max_results |-> DefaultMaxResults]]
    /\ tpc = [t \in ToolCalls |-> "returned"]
    /\ qi = [t \in ToolCalls |-> 1]
    /\ redis = [k \in CacheKeys |-> NoEntry]
    /\ redis_up = FALSE
    /\ outage = TRUE
    /\ client = FALSE
    /\ now = 0
    /\ lookups = [t \in ToolCalls |-> <<>>]
    /\ api_calls = <<>>
    /\ uses = [t \in ToolCalls |-> <<>>]

\* StreamingCallbackHandler.__init__, before the engine has made a callback
HandlerInit ==
    /\ started = [r \in LlmRuns |-> Unstarted]
    /\ current_question = NoLabel
    /\ run_to_question = [r \in Runs |-> NoLabel]
    /\ run_to_parent = [r \in Runs |-> NoRun]
    /\ queue = <<>>
    /\ produced = <<>>

\* stream_research has not been called
ResearchIdle ==
    /\ spos = "init"
    /\ research_task = "none"
    /\ research_outcome = "none"
    /\ questions_seen = {}
    /\ last_status = <<>>
    /\ sent = <<>>

\* no call of _get_question_for_run is in progress
WalkIdle ==
    /\ walk_key = NoRun
    /\ walk_parent = NoRun
    /\ walk_pc = "idle"
    /\ walk_current = NoRun
    /\ walk_visited = {}
    /\ walk_order = <<>>
    /\ walk_result = NoLabel

\* no company-matcher request has been made
MatcherIdle ==
    /\ request = [c \in Callers |-> NoRequest]
    /\ http_response = [c \in Callers |-> "none"]
    /\ attached = [c \in Callers |-> NoJob]
    /\ jobs_by_key = [k \in MatcherKeys |-> NoJob]
    /\ job_done = [j \in JobIds |-> FALSE]
    /\ created = 0

\* the counters of a runner that has not started, and no flush
MetricsIdle ==
    /\ metrics = [j \in JobIds |-> NoMetrics]
    /\ flushed = [j \in JobIds |-> <<>>]

ExtraIdle == ResearchIdle /\ WalkIdle /\ MatcherIdle /\ MetricsIdle

\* ------------------------------------------------------------------ Init
InitHubState ==
    /\ hubLock = Free
    /\ hubJobs = [k \in Keys |-> NoJob]
    /\ nJobs = 0
    /\ jobKey = [j \in JobIds |-> "none"]
    /\ events = [j \in JobIds |-> <<>>]
    /\ done = [j \in JobIds |-> FALSE]
    /\ jobLock = [j \in JobIds |-> Free]
    /\ finishCalls = [j \in JobIds |-> 0]
    /\ error = [j \in JobIds |-> "None"]
    /\ rpc = [j \in JobIds |-> "none"]
    /\ pos = [j \in JobIds |-> 0]
    /\ phase = [j \in JobIds |-> "events"]
    /\ tail = [j \in JobIds |-> <<>>]
    /\ final_output = [j \in JobIds |-> "none"]
    /\ extracted = [j \in JobIds |-> "no"]
    /\ step_id = [j \in JobIds |-> FALSE]
    /\ chunk = [j \in JobIds |-> "none"]
    /\ flush = [j \in JobIds |-> "no"]
    /\ engineRuns = [j \in JobIds |-> [astream_events |-> 0, ainvoke |-> 0]]
    /\ pc = [c \in Callers |-> "idle"]
    /\ job = [c \in Callers |-> NoJob]
    /\ idx = [c \in Callers |-> 0]
    /\ to_yield = [c \in Callers |-> <<>>]
    /\ sdone = [c \in Callers |-> FALSE]
    /\ recv = [c \in Callers |-> <<>>]
    /\ attachedDone = [c \in Callers |-> FALSE]

\* The state after construction: no request yet, no callback yet.
InitState ==
    /\ InitHubState
    /\ parent_run_id = [r \in Runs |-> NoRun]
    /\ HandlerInit
    /\ ExtraIdle
    /\ CacheIdle

\* An engine run whose only completion record, if any, is its last record
\* and carries a well-formed report.
Regular(s) ==
    \A i \in 1..Len(s.records) :
        \/ s.records[i] = on_chat_model_start
        \/ i = Len(s.records) /\ s.records[i] = on_chain_end_root("valid")

\* Two requests with the same key over the regular engine runs: c1 reads
\* from the start, c2 (a duplicate or a reconnect) from any cursor.
Init ==
    /\ script \in {s \in Scripts : Regular(s)}
    /\ \E k \in Keys : reqKey = [c \in Callers |-> k]
    /\ cursor \in [Callers -> Cursors]
    /\ cursor["c1"] = 0
    /\ InitState

\* The runs of Init with a short engine trace.
InitLive ==
    /\ Init
    /\ Len(script.records) <= MaxLiveEvents

\* One request, subscribing from the start as the endpoints do (a negative
\* cursor is clamped to 0), over every engine run.
InitRunner ==
    /\ script \in Scripts
    /\ \E k \in Keys : reqKey = [c \in Callers |-> IF c = "c1" THEN k ELSE "none"]
    /\ cursor \in [Callers -> {0 - 1, 0}]
    /\ cursor["c2"] = 0
    /\ InitState

\* ------------------------------------------------- StreamHub.get_or_create
\* get_or_create entered without taking self._lock
get_or_create_unlocked(c) ==
    /\ pc[c] = "idle"
    /\ reqKey[c] \in Keys
    /\ hubLock' = c
    /\ pc' = [pc EXCEPT ![c] = "lookup"]
    /\ UNCHANGED <<sideVars, inputVars, hubJobs, nJobs, jobKey, jobVars, runnerVars,
                   job, idx, to_yield, sdone, recv, attachedDone>>

\* async with self._lock
get_or_create_acquire(c) ==
    /\ pc[c] = "idle"
    /\ reqKey[c] \in Keys
    /\ hubLock = Free
    /\ hubLock' = c
    /\ pc' = [pc EXCEPT ![c] = "lookup"]
    /\ UNCHANGED <<sideVars, inputVars, hubJobs, nJobs, jobKey, jobVars, runnerVars,
                   job, idx, to_yield, sdone, recv, attachedDone>>

\* get_or_create treating a finished job as absent, so that a request which
\* arrives after completion starts a fresh run
get_or_create_lookup_running(c) ==
    /\ pc[c] = "lookup"
    /\ IF hubJobs[reqKey[c]] # NoJob /\ ~done[hubJobs[reqKey[c]]]
       THEN /\ job' = [job EXCEPT ![c] = hubJobs[reqKey[c]]]
            /\ pc' = [pc EXCEPT ![c] = "got"]
            /\ hubLock' = IF hubLock = c THEN Free ELSE hubLock
       ELSE /\ pc' = [pc EXCEPT ![c] = "create"]
            /\ UNCHANGED <<job, hubLock>>
    /\ UNCHANGED <<sideVars, inputVars, hubJobs, nJobs, jobKey, jobVars, runnerVars,
                   idx, to_yield, sdone, recv, attachedDone>>

\* job = self._jobs.get(key); if job is not None: return job
get_or_create_lookup(c) ==
    /\ pc[c] = "lookup"
    /\ IF hubJobs[reqKey[c]] # NoJob
       THEN /\ job' = [job EXCEPT ![c] = hubJobs[reqKey[c]]]
            /\ pc' = [pc EXCEPT ![c] = "got"]
            /\ hubLock' = IF hubLock = c THEN Free ELSE hubLock
       ELSE /\ pc' = [pc EXCEPT ![c] = "create"]
            /\ UNCHANGED <<job, hubLock>>
    /\ UNCHANGED <<sideVars, inputVars, hubJobs, nJobs, jobKey, jobVars, runnerVars,
                   idx, to_yield, sdone, recv, attachedDone>>

\* job = StreamJob(); self._jobs[key] = job; job._task = create_task(runner(job))
get_or_create_create(c) ==
    /\ pc[c] = "create"
    /\ nJobs < MaxJobs
    /\ LET j == nJobs + 1 IN
        /\ nJobs' = j
        /\ hubJobs' = [hubJobs EXCEPT ![reqKey[c]] = j]
        /\ jobKey' = [jobKey EXCEPT ![j] = reqKey[c]]
        /\ rpc' = [rpc EXCEPT ![j] = "start"]
        /\ job' = [job EXCEPT ![c] = j]
    /\ pc' = [pc EXCEPT ![c] = "got"]
    /\ hubLock' = IF hubLock = c THEN Free ELSE hubLock
    /\ UNCHANGED <<sideVars, inputVars, engineRuns, jobVars, pos, phase, tail, final_output,
                   extracted, step_id, chunk, flush,
                   idx, to_yield, sdone, recv, attachedDone>>

\* ------------------------------------------------------------- StreamJob
\* self._cond.notify_all(): every subscriber waiting on the job's condition
\* is woken and has to take the lock again before it continues.
notify_all(j) ==
    [c \in Callers |-> IF job[c] = j /\ pc[c] = "waiting" THEN "woken" ELSE pc[c]]

\* append putting the new event in front of the log
append_front(j, ch) ==
    /\ jobLock[j] = Free
    /\ events' = [events EXCEPT ![j] = <<ch>> \o @]
    /\ pc' = notify_all(j)
    /\ UNCHANGED <<done, jobLock, finishCalls, error>>

\* StreamJob.append
append(j, ch) ==
    /\ jobLock[j] = Free
    /\ events' = [events EXCEPT ![j] = Append(@, ch)]
    /\ pc' = notify_all(j)
    /\ UNCHANGED <<done, jobLock, finishCalls, error>>

\* finish setting done without self._cond.notify_all()
finish_without_notify(j, e) ==
    /\ jobLock[j] = Free
    /\ done' = [done EXCEPT ![j] = TRUE]
    /\ error' = [error EXCEPT ![j] = e]
    /\ finishCalls' = [finishCalls EXCEPT ![j] = @ + 1]
    /\ pc' = pc
    /\ UNCHANGED <<events, jobLock>>

\* the error argument of StreamJob.finish: None or a message
Errors == {"None", "failed"}

\* StreamJob.finish(error)
finish(j, e) ==
    /\ jobLock[j] = Free
    /\ done' = [done EXCEPT ![j] = TRUE]
    /\ error' = [error EXCEPT ![j] = e]
    /\ finishCalls' = [finishCalls EXCEPT ![j] = @ + 1]
    /\ pc' = notify_all(j)
    /\ UNCHANGED <<events, jobLock>>

\* --------------------------------------------- translator and extraction
\* The tool_end chunk stream_agent_events serialises: its type, the name of
\* the tool and the sources found in the output.
tool_end_data(n, s) ==
    "tool_end name=" \o n \o " sources=" \o (IF s THEN "[url]" ELSE "[]")

\* stream_with_final_result.observe_event
observe_event(fo, r) ==
    IF r.event = "on_chain_end" /\ r.root /\ r.output \in DictOutputs
    THEN r.output ELSE fo

\* stream_agent_events handing the data of a top-level completion on as an
\* event of its own
translate_raw(r) ==
    IF r.event = "on_chat_model_start" THEN <<"llm_start">>
    ELSE IF r.event = "on_tool_start" THEN <<"tool_start">>
    ELSE IF r.event = "on_tool_end"
    THEN IF r.name = "web_search" /\ r.output = "text with https://example.com"
         THEN <<tool_end_data(r.name, TRUE)>>
         ELSE <<tool_end_data(r.name, FALSE)>>
    ELSE IF r.event = "on_chain_end" /\ r.root THEN <<r.output>>
    ELSE IF r.event = "on_chain_end"
              /\ (r.langgraph_node \/ r.name = "LangGraph") THEN <<"node_end">>
    ELSE <<>>

\* stream_agent_events: the chunks one engine record is translated into
translate(r) ==
    IF r.event = "on_chat_model_start" THEN <<"llm_start">>
    ELSE IF r.event = "on_tool_start" THEN <<"tool_start">>
    ELSE IF r.event = "on_tool_end"
    THEN IF r.name = "web_search" /\ r.output = "text with https://example.com"
         THEN <<tool_end_data(r.name, TRUE)>>
         ELSE <<tool_end_data(r.name, FALSE)>>
    ELSE IF r.event = "on_chain_end"
              /\ (r.langgraph_node \/ r.name = "LangGraph") THEN <<"node_end">>
    ELSE <<>>

\* extract_result applied to final_output fo gives "result" (a dict is
\* returned), "none" (None is returned) or "throw".  hasStep: step_id is
\* set, so the tracker is called; trackerRaises: that call raises.
\* run_job.extract_result (matcher): json.loads raises TypeError on a report
\* that is not text; the tracker calls are not guarded.
run_job_extract_result(fo, hasStep, trackerRaises) ==
    IF fo = "ok" THEN "none"
    ELSE IF fo = "badtype" THEN "throw"
    ELSE IF hasStep /\ trackerRaises THEN "throw"
    ELSE IF fo = "valid" THEN "result" ELSE "none"

\* runner.extract_result (researcher): the tracker calls are wrapped in
\* try/except.
runner_extract_result(fo, hasStep, trackerRaises) ==
    IF fo = "ok" THEN "none"
    ELSE IF fo = "badtype" THEN "throw"
    ELSE IF fo = "valid" THEN "result" ELSE "none"

extract_result(kind, fo, hasStep, trackerRaises) ==
    IF kind = "matcher" THEN run_job_extract_result(fo, hasStep, trackerRaises)
    ELSE runner_extract_result(fo, hasStep, trackerRaises)

\* stream_with_final_result swallowing an extraction failure silently
after_events_silent(outcome) ==
    IF outcome = "result" THEN <<"result", "done">>
    ELSE <<"done">>

\* stream_with_final_result after the event loop: the chunks it still yields
after_events(outcome) ==
    IF outcome = "result" THEN <<"result", "done">>
    ELSE IF outcome = "throw" THEN <<"error", "done">>
    ELSE <<"done">>

\* ------------------------------------------------------ runner metrics
\* json.loads(chunk[6:]) as far as the metrics read it: type, name, sources
loads(ch) ==
    IF ch = "llm_start" THEN [type |-> "llm_start", name |-> "", sources |-> FALSE]
    ELSE IF \E n \in AllToolNames, b \in BOOLEAN : ch = tool_end_data(n, b)
    THEN LET d == CHOOSE d \in AllToolNames \X BOOLEAN : ch = tool_end_data(d[1], d[2])
         IN  [type |-> "tool_end", name |-> d[1], sources |-> d[2]]
    ELSE [type |-> "other", name |-> "", sources |-> FALSE]

\* "search" in name.lower(): name is some text, then search, then some
\* text.  The tools of the agents have lower-case names, which lower() leaves
\* as they are.
search_in(name) ==
    \E pre \in NameParts, post \in NameParts : name = pre \o "search" \o post

\* the counting that leaves out the test of the tool's name
collect_metrics_any_tool(m, ch) ==
    LET event_data == loads(ch) IN
    IF event_data.type = "llm_start"
    THEN [m EXCEPT !.llm_calls = @ + 1]
    ELSE IF event_data.type = "tool_end"
    THEN [m EXCEPT !.search_calls = @ + 1,
                   !.sources = IF event_data.sources THEN @ + 1 ELSE @]
    ELSE m

\* the body of the stream loop before job.append: the counters after chunk ch
collect_metrics(m, ch) ==
    LET event_data == loads(ch) IN
    IF event_data.type = "llm_start"
    THEN [m EXCEPT !.llm_calls = @ + 1]
    ELSE IF event_data.type = "tool_end" /\ search_in(event_data.name)
    THEN [m EXCEPT !.search_calls = @ + 1,
                   !.sources = IF event_data.sources THEN @ + 1 ELSE @]
    ELSE m

\* the loop variable chunk becomes ch: the counters of runner j follow
counted(j, ch) == [metrics EXCEPT ![j] = collect_metrics(@, ch)]

\* --------------------------------------------------------------- runners
\* The tracker calls at the start of a runner.  t = "off": no tracker is
\* configured; "ok": step_id is set; "raise": a tracker call raises.
TrackerOutcomes == {"off", "ok", "raise"}

\* run_job (matcher) up to the stream loop: the tracker calls are outside
\* every try block, so an exception ends the task.
run_job_start(j) ==
    /\ rpc[j] = "start"
    /\ jobKey[j] = "matcher"
    /\ \E t \in TrackerOutcomes :
        /\ step_id' = [step_id EXCEPT ![j] = (t = "ok")]
        /\ rpc' = [rpc EXCEPT ![j] = IF t = "raise" THEN "crashed" ELSE "pull"]
    /\ UNCHANGED <<sideVars, inputVars, engineRuns, hubVars, jobVars, pos, phase, tail, final_output,
                   extracted, chunk, flush, subVars>>

\* runner (researcher) up to the stream loop: the tracker calls are inside
\* the outer try, whose finally block calls job.finish().
runner_start(j) ==
    /\ rpc[j] = "start"
    /\ jobKey[j] = "company_researcher"
    /\ \E t \in TrackerOutcomes :
        /\ step_id' = [step_id EXCEPT ![j] = (t = "ok")]
        /\ rpc' = [rpc EXCEPT ![j] = IF t = "raise" THEN "finish" ELSE "pull"]
    /\ UNCHANGED <<sideVars, inputVars, engineRuns, hubVars, jobVars, pos, phase, tail, final_output,
                   extracted, chunk, flush, subVars>>

\* The first pull of the stream loop enters stream_agent_events, which
\* calls graph.astream_events once; no step calls graph.ainvoke.
astream_started(j) ==
    [engineRuns EXCEPT ![j].astream_events =
        IF pos[j] = 0 /\ phase[j] = "events" THEN @ + 1 ELSE @]

\* async for chunk in stream: the engine hands over its next record
stream_next_record(j) ==
    /\ rpc[j] = "pull"
    /\ phase[j] = "events"
    /\ pos[j] < Len(script.records)
    /\ LET r == script.records[pos[j] + 1]
           out == translate(r) IN
        /\ pos' = [pos EXCEPT ![j] = @ + 1]
        /\ final_output' = [final_output EXCEPT ![j] = observe_event(@, r)]
        /\ IF out # <<>>
           THEN /\ chunk' = [chunk EXCEPT ![j] = out[1]]
                /\ metrics' = counted(j, out[1])
                /\ rpc' = [rpc EXCEPT ![j] = "append"]
           ELSE UNCHANGED <<chunk, metrics, rpc>>
    /\ engineRuns' = astream_started(j)
    /\ UNCHANGED <<handlerVars, cacheVars, researchVars, walkVars, matcherVars, flushed,
                   inputVars, hubVars, jobVars, phase, tail, extracted,
                   step_id, flush, subVars>>

\* the engine raises: stream_agent_events yields one error chunk
stream_engine_raises(j) ==
    /\ rpc[j] = "pull"
    /\ phase[j] = "events"
    /\ pos[j] = Len(script.records)
    /\ script.raises
    /\ chunk' = [chunk EXCEPT ![j] = "error"]
    /\ metrics' = counted(j, "error")
    /\ phase' = [phase EXCEPT ![j] = "raised"]
    /\ rpc' = [rpc EXCEPT ![j] = "append"]
    /\ engineRuns' = astream_started(j)
    /\ UNCHANGED <<handlerVars, cacheVars, researchVars, walkVars, matcherVars, flushed,
                   inputVars, hubVars, jobVars, pos, tail, final_output,
                   extracted, step_id, flush, subVars>>

\* stream_with_final_result fetching the final state with graph.ainvoke
\* next to the event stream
stream_extract_ainvoke(j) ==
    /\ rpc[j] = "pull"
    /\ \/ phase[j] = "raised"
       \/ phase[j] = "events" /\ pos[j] = Len(script.records) /\ ~script.raises
    /\ \E trackerRaises \in BOOLEAN :
        LET outcome == IF final_output[j] = "none" THEN "no"
                       ELSE extract_result(jobKey[j], final_output[j],
                                           step_id[j], trackerRaises)
            out == after_events(outcome) IN
        /\ extracted' = [extracted EXCEPT ![j] = outcome]
        /\ chunk' = [chunk EXCEPT ![j] = Head(out)]
        /\ metrics' = counted(j, Head(out))
        /\ tail' = [tail EXCEPT ![j] = Tail(out)]
    /\ phase' = [phase EXCEPT ![j] = "tail"]
    /\ rpc' = [rpc EXCEPT ![j] = "append"]
    /\ engineRuns' = [astream_started(j) EXCEPT ![j].ainvoke = @ + 1]
    /\ UNCHANGED <<handlerVars, cacheVars, researchVars, walkVars, matcherVars, flushed,
                   inputVars, hubVars, jobVars, pos, final_output,
                   step_id, flush, subVars>>

\* stream_agent_events is exhausted: stream_with_final_result extracts the
\* result when final_output was captured and yields its next chunk
stream_extract(j) ==
    /\ rpc[j] = "pull"
    /\ \/ phase[j] = "raised"
       \/ phase[j] = "events" /\ pos[j] = Len(script.records) /\ ~script.raises
    /\ \E trackerRaises \in BOOLEAN :
        LET outcome == IF final_output[j] = "none" THEN "no"
                       ELSE extract_result(jobKey[j], final_output[j],
                                           step_id[j], trackerRaises)
            out == after_events(outcome) IN
        /\ extracted' = [extracted EXCEPT ![j] = outcome]
        /\ chunk' = [chunk EXCEPT ![j] = Head(out)]
        /\ metrics' = counted(j, Head(out))
        /\ tail' = [tail EXCEPT ![j] = Tail(out)]
    /\ phase' = [phase EXCEPT ![j] = "tail"]
    /\ rpc' = [rpc EXCEPT ![j] = "append"]
    /\ engineRuns' = astream_started(j)
    /\ UNCHANGED <<handlerVars, cacheVars, researchVars, walkVars, matcherVars, flushed,
                   inputVars, hubVars, jobVars, pos, final_output,
                   step_id, flush, subVars>>

\* stream_with_final_result yields the chunk that follows the result
stream_tail(j) ==
    /\ rpc[j] = "pull"
    /\ phase[j] = "tail"
    /\ tail[j] # <<>>
    /\ chunk' = [chunk EXCEPT ![j] = Head(tail[j])]
    /\ metrics' = counted(j, Head(tail[j]))
    /\ tail' = [tail EXCEPT ![j] = Tail(@)]
    /\ rpc' = [rpc EXCEPT ![j] = "append"]
    /\ UNCHANGED <<handlerVars, cacheVars, researchVars, walkVars, matcherVars, flushed,
                   inputVars, engineRuns, hubVars, jobVars, pos, phase, final_output,
                   extracted, step_id, flush, subVars>>

\* the stream is exhausted: the loop ends and the finally block starts
stream_end(j) ==
    /\ rpc[j] = "pull"
    /\ phase[j] = "tail"
    /\ tail[j] = <<>>
    /\ rpc' = [rpc EXCEPT ![j] = "flush"]
    /\ UNCHANGED <<sideVars, inputVars, engineRuns, hubVars, jobVars, pos, phase, tail, final_output,
                   extracted, step_id, chunk, flush, subVars>>

\* the stream loop finishing the job as soon as it appends an error chunk
runner_append_finishing(j) ==
    /\ rpc[j] = "append"
    /\ jobLock[j] = Free
    /\ events' = [events EXCEPT ![j] = Append(@, chunk[j])]
    /\ done' = [done EXCEPT ![j] = @ \/ chunk[j] = "error"]
    /\ pc' = notify_all(j)
    /\ rpc' = [rpc EXCEPT ![j] = "pull"]
    /\ UNCHANGED <<sideVars, inputVars, engineRuns, hubVars, jobLock, finishCalls, error, pos, phase, tail,
                   final_output, extracted, step_id, chunk, flush,
                   job, idx, to_yield, sdone, recv, attachedDone>>

\* await job.append(chunk) in the stream loop.  The except Exception
\* handlers around the loop (main.py 564-568, 806-816) are no step of the
\* model: stream_agent_events and stream_with_final_result catch every
\* Exception of the engine and of extract_result, and StreamJob.append
\* raises none, so nothing reaches them.
runner_append(j) ==
    /\ rpc[j] = "append"
    /\ append(j, chunk[j])
    /\ rpc' = [rpc EXCEPT ![j] = "pull"]
    /\ UNCHANGED <<sideVars, inputVars, engineRuns, hubVars, pos, phase, tail, final_output,
                   extracted, step_id, chunk, flush,
                   job, idx, to_yield, sdone, recv, attachedDone>>

\* finally: flush the metrics once; tracker errors are swallowed.  With a
\* step and a counter that is not zero, tracker.update_step_metrics is called
\* with the counters.
runner_flush(j) ==
    /\ rpc[j] = "flush"
    /\ \E trackerRaises \in BOOLEAN :
        flush' = [flush EXCEPT ![j] =
            IF ~step_id[j] THEN "skipped"
            ELSE IF trackerRaises THEN "raised" ELSE "ok"]
    /\ flushed' = IF step_id[j] /\ metrics[j] # NoMetrics
                  THEN [flushed EXCEPT ![j] = Append(@, metrics[j])]
                  ELSE flushed
    /\ rpc' = [rpc EXCEPT ![j] = "finish"]
    /\ UNCHANGED <<handlerVars, cacheVars, researchVars, walkVars, matcherVars, metrics,
                   inputVars, engineRuns, hubVars, jobVars, pos, phase, tail, final_output,
                   extracted, step_id, chunk, subVars>>

\* await job.finish(): the runners pass no error argument
runner_finish(j) ==
    /\ rpc[j] = "finish"
    /\ finish(j, "None")
    /\ rpc' = [rpc EXCEPT ![j] = "ended"]
    /\ UNCHANGED <<sideVars, inputVars, engineRuns, hubVars, pos, phase, tail, final_output,
                   extracted, step_id, chunk, flush,
                   job, idx, to_yield, sdone, recv, attachedDone>>

\* --------------------------------------------------- StreamJob.subscribe
Max(a, b) == IF a > b THEN a ELSE b

\* job.subscribe(cursor): idx = max(0, cursor)
subscribe(c) ==
    /\ pc[c] = "got"
    /\ idx' = [idx EXCEPT ![c] = Max(0, cursor[c])]
    /\ attachedDone' = [attachedDone EXCEPT ![c] = done[job[c]]]
    /\ pc' = [pc EXCEPT ![c] = "loop"]
    /\ UNCHANGED <<sideVars, inputVars, hubVars, jobVars, runnerVars,
                   job, to_yield, sdone, recv>>

\* async with self._cond
subscribe_acquire(c) ==
    /\ pc[c] = "loop"
    /\ jobLock[job[c]] = Free
    /\ jobLock' = [jobLock EXCEPT ![job[c]] = c]
    /\ pc' = [pc EXCEPT ![c] = "locked"]
    /\ UNCHANGED <<sideVars, inputVars, hubVars, events, done, finishCalls, error, runnerVars,
                   job, idx, to_yield, sdone, recv, attachedDone>>

\* the with block returning at once on done, before it copies the slice
subscribe_check_done_first(c) ==
    /\ pc[c] = "locked"
    /\ LET j == job[c]
           slice == IF idx[c] < Len(events[j]) /\ ~done[j]
                    THEN SubSeq(events[j], idx[c] + 1, Len(events[j]))
                    ELSE <<>> IN
        /\ to_yield' = [to_yield EXCEPT ![c] = slice]
        /\ idx' = [idx EXCEPT ![c] = IF idx[c] < Len(events[j]) /\ ~done[j]
                                     THEN Len(events[j]) ELSE @]
        /\ sdone' = [sdone EXCEPT ![c] = done[j]]
        /\ pc' = [pc EXCEPT ![c] =
              IF slice = <<>> /\ ~done[j] THEN "waiting" ELSE "yield"]
        /\ jobLock' = [jobLock EXCEPT ![j] = Free]
    /\ UNCHANGED <<sideVars, inputVars, hubVars, events, done, finishCalls, error, runnerVars,
                   job, recv, attachedDone>>

\* the with block copying events[idx+1:] instead of events[idx:]
subscribe_check_off_by_one(c) ==
    /\ pc[c] = "locked"
    /\ LET j == job[c]
           slice == IF idx[c] < Len(events[j])
                    THEN SubSeq(events[j], idx[c] + 2, Len(events[j]))
                    ELSE <<>> IN
        /\ to_yield' = [to_yield EXCEPT ![c] = slice]
        /\ idx' = [idx EXCEPT ![c] = IF idx[c] < Len(events[j])
                                     THEN Len(events[j]) ELSE @]
        /\ sdone' = [sdone EXCEPT ![c] = done[j]]
        /\ pc' = [pc EXCEPT ![c] =
              IF slice = <<>> /\ ~done[j] THEN "waiting" ELSE "yield"]
        /\ jobLock' = [jobLock EXCEPT ![j] = Free]
    /\ UNCHANGED <<sideVars, inputVars, hubVars, events, done, finishCalls, error, runnerVars,
                   job, recv, attachedDone>>

\* the for loop over to_yield placed inside the with block: the lock is
\* still held at the yield
subscribe_check_yield_locked(c) ==
    /\ pc[c] = "locked"
    /\ LET j == job[c]
           slice == IF idx[c] < Len(events[j])
                    THEN SubSeq(events[j], idx[c] + 1, Len(events[j]))
                    ELSE <<>> IN
        /\ to_yield' = [to_yield EXCEPT ![c] = slice]
        /\ idx' = [idx EXCEPT ![c] = IF idx[c] < Len(events[j])
                                     THEN Len(events[j]) ELSE @]
        /\ sdone' = [sdone EXCEPT ![c] = done[j]]
        /\ pc' = [pc EXCEPT ![c] =
              IF slice = <<>> /\ ~done[j] THEN "waiting" ELSE "yield"]
        /\ jobLock' = [jobLock EXCEPT ![j] = IF slice = <<>> THEN Free ELSE c]
    /\ UNCHANGED <<sideVars, inputVars, hubVars, events, done, finishCalls, error, runnerVars,
                   job, recv, attachedDone>>

\* the body of the with block: copy the slice, read done, wait or leave
subscribe_check(c) ==
    /\ pc[c] = "locked"
    /\ LET j == job[c]
           slice == IF idx[c] < Len(events[j])
                    THEN SubSeq(events[j], idx[c] + 1, Len(events[j]))
                    ELSE <<>> IN
        /\ to_yield' = [to_yield EXCEPT ![c] = slice]
        /\ idx' = [idx EXCEPT ![c] = IF idx[c] < Len(events[j])
                                     THEN Len(events[j]) ELSE @]
        /\ sdone' = [sdone EXCEPT ![c] = done[j]]
        /\ pc' = [pc EXCEPT ![c] =
              IF slice = <<>> /\ ~done[j] THEN "waiting" ELSE "yield"]
        /\ jobLock' = [jobLock EXCEPT ![j] = Free]
    /\ UNCHANGED <<sideVars, inputVars, hubVars, events, done, finishCalls, error, runnerVars,
                   job, recv, attachedDone>>

\* self._cond.wait() returns once notified and the lock is taken again;
\* continue then leaves the with block and releases it
subscribe_wake(c) ==
    /\ pc[c] = "woken"
    /\ jobLock[job[c]] = Free
    /\ pc' = [pc EXCEPT ![c] = "loop"]
    /\ UNCHANGED <<sideVars, inputVars, hubVars, jobVars, runnerVars,
                   job, idx, to_yield, sdone, recv, attachedDone>>

\* for chunk in to_yield: yield chunk
subscribe_yield(c) ==
    /\ pc[c] = "yield"
    /\ to_yield[c] # <<>>
    /\ recv' = [recv EXCEPT ![c] = Append(@, Head(to_yield[c]))]
    /\ to_yield' = [to_yield EXCEPT ![c] = Tail(@)]
    /\ UNCHANGED <<sideVars, inputVars, hubVars, jobVars, runnerVars,
                   pc, job, idx, sdone, attachedDone>>

\* if done: return, else go round the loop again
subscribe_next(c) ==
    /\ pc[c] = "yield"
    /\ to_yield[c] = <<>>
    /\ pc' = [pc EXCEPT ![c] = IF sdone[c] THEN "end" ELSE "loop"]
    /\ UNCHANGED <<sideVars, inputVars, hubVars, jobVars, runnerVars,
                   job, idx, to_yield, sdone, recv, attachedDone>>

\* ------------------------------------------- cancelling a subscriber
\* The subscriber's task is cancelled (or its generator closed) while it is
\* suspended.  At a yield, or while it queues for the lock, the exception
\* leaves subscribe at once.  In self._cond.wait() the wait first has to take
\* the lock again before the exception leaves the with block.
subscribe_cancel(c) ==
    /\ \/ pc[c] = "yield"
       \/ pc[c] = "loop" /\ jobLock[job[c]] # Free
       \/ pc[c] \in {"waiting", "woken"}
    /\ pc' = [pc EXCEPT ![c] = IF pc[c] \in {"waiting", "woken"}
                               THEN "cancelling" ELSE "cancelled"]
    /\ UNCHANGED <<sideVars, inputVars, hubVars, jobVars, runnerVars,
                   job, idx, to_yield, sdone, recv, attachedDone>>

\* a cancelled wait leaving subscribe with the lock it took again still held
subscribe_cancel_release_skipped(c) ==
    /\ pc[c] = "cancelling"
    /\ jobLock[job[c]] = Free
    /\ jobLock' = [jobLock EXCEPT ![job[c]] = c]
    /\ pc' = [pc EXCEPT ![c] = "cancelled"]
    /\ UNCHANGED <<sideVars, inputVars, hubVars, events, done, finishCalls, error, runnerVars,
                   job, idx, to_yield, sdone, recv, attachedDone>>

\* the cancelled wait has the lock again; CancelledError leaves the
\* async with block, which releases it
subscribe_cancel_release(c) ==
    /\ pc[c] = "cancelling"
    /\ jobLock[job[c]] = Free
    /\ pc' = [pc EXCEPT ![c] = "cancelled"]
    /\ UNCHANGED <<sideVars, inputVars, hubVars, jobVars, runnerVars,
                   job, idx, to_yield, sdone, recv, attachedDone>>

\* ------------------------------------------------ StreamJob used directly
\* A producer that holds a StreamJob and calls its methods in any order, as
\* the class allows; j is a job no runner task drives.
job_append(j) ==
    /\ j <= nJobs
    /\ rpc[j] = "none"
    /\ Len(events[j]) < MaxJobCalls
    /\ \E ch \in {"llm_start", "done"} : append(j, ch)
    /\ UNCHANGED <<sideVars, inputVars, hubVars, runnerVars,
                   job, idx, to_yield, sdone, recv, attachedDone>>

job_finish(j) ==
    /\ j <= nJobs
    /\ rpc[j] = "none"
    /\ finishCalls[j] < MaxJobCalls
    /\ \E e \in Errors : finish(j, e)
    /\ UNCHANGED <<sideVars, inputVars, hubVars, runnerVars,
                   job, idx, to_yield, sdone, recv, attachedDone>>

\* ------------------------------------------- StreamingCallbackHandler
\* the while loop of _get_question_for_run: the label of the first labeled
\* run on the recorded parent chain from current, NoLabel when there is none
RECURSIVE ancestry_walk(_, _, _, _)
ancestry_walk(current, visited, rtq, rtp) ==
    IF current = NoRun \/ current \in visited THEN NoLabel
    ELSE IF rtq[current] # NoLabel THEN rtq[current]
    ELSE ancestry_walk(rtp[current], visited \cup {current}, rtq, rtp)

\* _get_question_for_run(walk_key, walk_parent) taken statement by
\* statement.  Up to the loop: record the parent, look at the run's own
\* label, then at the parent's, else start the walk at the parent.
walk_enter ==
    /\ walk_pc = "idle"
    /\ walk_key # NoRun \/ walk_parent # NoRun
    /\ run_to_parent' = IF walk_key # NoRun /\ walk_parent # NoRun
                         THEN [run_to_parent EXCEPT ![walk_key] = walk_parent]
                         ELSE run_to_parent
    /\ IF walk_key # NoRun /\ run_to_question[walk_key] # NoLabel
       THEN /\ walk_result' = run_to_question[walk_key]
            /\ walk_pc' = "returned"
            /\ UNCHANGED <<run_to_question, walk_current>>
       ELSE IF walk_parent # NoRun /\ run_to_question[walk_parent] # NoLabel
       THEN /\ walk_result' = run_to_question[walk_parent]
            /\ run_to_question' =
                  IF walk_key # NoRun
                  THEN [run_to_question EXCEPT ![walk_key] = run_to_question[walk_parent]]
                  ELSE run_to_question
            /\ walk_pc' = "returned"
            /\ UNCHANGED walk_current
       ELSE /\ walk_current' = walk_parent
            /\ walk_pc' = "loop"
            /\ UNCHANGED <<run_to_question, walk_result>>
    /\ UNCHANGED <<streamVars, cacheVars, researchVars, matcherVars, metricVars,
                   parent_run_id, started, current_question, queue, produced,
                   walk_key, walk_parent, walk_visited, walk_order>>

\* the loop body entered for every current, visited before or not
walk_step_unvisited ==
    /\ walk_pc = "loop"
    /\ walk_current # NoRun
    /\ Len(walk_order) <= Cardinality(Runs)
    /\ walk_visited' = walk_visited \cup {walk_current}
    /\ walk_order' = Append(walk_order, walk_current)
    /\ IF run_to_question[walk_current] # NoLabel
       THEN /\ walk_result' = run_to_question[walk_current]
            /\ run_to_question' =
                  IF walk_key # NoRun
                  THEN [run_to_question EXCEPT ![walk_key] = run_to_question[walk_current]]
                  ELSE run_to_question
            /\ walk_pc' = "returned"
            /\ UNCHANGED walk_current
       ELSE /\ walk_current' = run_to_parent[walk_current]
            /\ UNCHANGED <<run_to_question, walk_result, walk_pc>>
    /\ UNCHANGED <<streamVars, cacheVars, researchVars, matcherVars, metricVars,
                   parent_run_id, started, current_question, run_to_parent, queue,
                   produced, walk_key, walk_parent>>

\* while current and current not in visited: one pass through the body
walk_step ==
    /\ walk_pc = "loop"
    /\ walk_current # NoRun
    /\ walk_current \notin walk_visited
    /\ walk_visited' = walk_visited \cup {walk_current}
    /\ walk_order' = Append(walk_order, walk_current)
    /\ IF run_to_question[walk_current] # NoLabel
       THEN /\ walk_result' = run_to_question[walk_current]
            /\ run_to_question' =
                  IF walk_key # NoRun
                  THEN [run_to_question EXCEPT ![walk_key] = run_to_question[walk_current]]
                  ELSE run_to_question
            /\ walk_pc' = "returned"
            /\ UNCHANGED walk_current
       ELSE /\ walk_current' = run_to_parent[walk_current]
            /\ UNCHANGED <<run_to_question, walk_result, walk_pc>>
    /\ UNCHANGED <<streamVars, cacheVars, researchVars, matcherVars, metricVars,
                   parent_run_id, started, current_question, run_to_parent, queue,
                   produced, walk_key, walk_parent>>

\* the loop condition fails: return self.current_question
walk_exit ==
    /\ walk_pc = "loop"
    /\ walk_current = NoRun \/ walk_current \in walk_visited
    /\ walk_result' = current_question
    /\ walk_pc' = "returned"
    /\ UNCHANGED <<streamVars, handlerVars, cacheVars, researchVars, matcherVars,
                   metricVars, walk_key, walk_parent, walk_current, walk_visited,
                   walk_order>>

\* label resolution that always answers with the most recent question
get_question_for_run_latest(run_key, parent_key) ==
    [question |-> current_question,
     run_to_question |-> run_to_question,
     run_to_parent |-> IF run_key # NoRun /\ parent_key # NoRun
                       THEN [run_to_parent EXCEPT ![run_key] = parent_key]
                       ELSE run_to_parent]

\* label resolution that looks at the parent's label before the run's own
get_question_for_run_parent_first(run_key, parent_key) ==
    LET rtp == IF run_key # NoRun /\ parent_key # NoRun
               THEN [run_to_parent EXCEPT ![run_key] = parent_key]
               ELSE run_to_parent
        cached(q) == IF run_key # NoRun
                     THEN [run_to_question EXCEPT ![run_key] = q]
                     ELSE run_to_question
        walked == ancestry_walk(parent_key, {}, run_to_question, rtp)
    IN  IF parent_key # NoRun /\ run_to_question[parent_key] # NoLabel
        THEN [question |-> run_to_question[parent_key],
              run_to_question |-> cached(run_to_question[parent_key]),
              run_to_parent |-> rtp]
        ELSE IF run_key # NoRun /\ run_to_question[run_key] # NoLabel
        THEN [question |-> run_to_question[run_key],
              run_to_question |-> run_to_question, run_to_parent |-> rtp]
        ELSE IF walked # NoLabel
        THEN [question |-> walked, run_to_question |-> cached(walked),
              run_to_parent |-> rtp]
        ELSE [question |-> current_question,
              run_to_question |-> run_to_question, run_to_parent |-> rtp]

\* StreamingCallbackHandler._get_question_for_run: the label it returns and
\* the two dicts as it leaves them
get_question_for_run(run_key, parent_key) ==
    LET rtp == IF run_key # NoRun /\ parent_key # NoRun
               THEN [run_to_parent EXCEPT ![run_key] = parent_key]
               ELSE run_to_parent
        cached(q) == IF run_key # NoRun
                     THEN [run_to_question EXCEPT ![run_key] = q]
                     ELSE run_to_question
        walked == ancestry_walk(parent_key, {}, run_to_question, rtp)
    IN  IF run_key # NoRun /\ run_to_question[run_key] # NoLabel
        THEN [question |-> run_to_question[run_key],
              run_to_question |-> run_to_question, run_to_parent |-> rtp]
        ELSE IF parent_key # NoRun /\ run_to_question[parent_key] # NoLabel
        THEN [question |-> run_to_question[parent_key],
              run_to_question |-> cached(run_to_question[parent_key]),
              run_to_parent |-> rtp]
        ELSE IF walked # NoLabel
        THEN [question |-> walked, run_to_question |-> cached(walked),
              run_to_parent |-> rtp]
        ELSE [question |-> current_question,
              run_to_question |-> run_to_question, run_to_parent |-> rtp]

\* The engine runs a child of a tool run only while the tool run is open.
ToolStarted(t) == \E i \in 1..Len(produced) : produced[i] = [run |-> t, content |-> "start"]
ToolEnded(t) == \E i \in 1..Len(produced) : produced[i] = [run |-> t, content |-> "end"]
Open(p) == p \in ToolRuns => ToolStarted(p) /\ ~ToolEnded(p)

\* the body shared by on_llm_start and on_chat_model_start: record the
\* parent, and when the prompt holds question q label the run and its parent
label_run(r, q) ==
    LET parent_key == parent_run_id[r] IN
    /\ started' = [started EXCEPT ![r] = q]
    /\ run_to_parent' = IF parent_key # NoRun
                         THEN [run_to_parent EXCEPT ![r] = parent_key]
                         ELSE run_to_parent
    /\ IF q # NoLabel
       THEN /\ current_question' = q
            /\ run_to_question' =
                  [k \in Runs |-> IF k = r \/ k = parent_key THEN q
                                  ELSE run_to_question[k]]
       ELSE UNCHANGED <<current_question, run_to_question>>
    /\ UNCHANGED <<streamVars, cacheVars, extraVars, parent_run_id, queue, produced>>

\* StreamingCallbackHandler.on_llm_start: the engine calls it once, when
\* run r (a completion model) starts; q is the question in prompts[0]
handler_on_llm_start(r, q) ==
    /\ started[r] = Unstarted
    /\ Open(parent_run_id[r])
    /\ label_run(r, q)

\* StreamingCallbackHandler.on_chat_model_start: the same for a chat model;
\* q is the question in the first message that holds one
handler_on_chat_model_start(r, q) ==
    /\ started[r] = Unstarted
    /\ Open(parent_run_id[r])
    /\ label_run(r, q)

\* self.queue.put_nowait(item); asyncio.QueueFull is swallowed
put_nowait(item) == IF Len(queue) < QueueMaxSize THEN Append(queue, item) ELSE queue

\* StreamingCallbackHandler.on_llm_new_token
handler_on_llm_new_token(r, token) ==
    /\ started[r] # Unstarted
    /\ Open(parent_run_id[r])
    /\ Len(produced) < MaxTokens
    /\ LET got == get_question_for_run(r, parent_run_id[r]) IN
        /\ run_to_question' = got.run_to_question
        /\ run_to_parent' = got.run_to_parent
        /\ queue' = put_nowait([type |-> "token", content |-> token,
                                question |-> got.question])
    /\ produced' = Append(produced, [run |-> r, content |-> token])
    /\ UNCHANGED <<streamVars, cacheVars, extraVars, parent_run_id, started, current_question>>

\* StreamingCallbackHandler.on_tool_start; content stands for the name field
handler_on_tool_start(r) ==
    /\ ~ToolStarted(r)
    /\ Open(parent_run_id[r])
    /\ Len(produced) < MaxTokens
    /\ LET got == get_question_for_run(r, parent_run_id[r]) IN
        /\ run_to_question' = got.run_to_question
        /\ run_to_parent' = got.run_to_parent
        /\ queue' = put_nowait([type |-> "tool", content |-> "web_search",
                                question |-> got.question])
    /\ produced' = Append(produced, [run |-> r, content |-> "start"])
    /\ UNCHANGED <<streamVars, cacheVars, extraVars, parent_run_id, started, current_question>>

\* StreamingCallbackHandler.on_tool_end; the event has no other field
handler_on_tool_end(r) ==
    /\ ToolStarted(r) /\ ~ToolEnded(r)
    /\ \A k \in ToolRuns : parent_run_id[k] = r /\ ToolStarted(k) => ToolEnded(k)
    /\ Len(produced) < MaxTokens
    /\ LET got == get_question_for_run(r, parent_run_id[r]) IN
        /\ run_to_question' = got.run_to_question
        /\ run_to_parent' = got.run_to_parent
        /\ queue' = put_nowait([type |-> "tool_end", content |-> "",
                                question |-> got.question])
    /\ produced' = Append(produced, [run |-> r, content |-> "end"])
    /\ UNCHANGED <<streamVars, cacheVars, extraVars, parent_run_id, started, current_question>>

\* --------------------------------------------------- stream_research
\* A unit of the response: type, and the fields content and question where
\* the unit has them ("" where it has not).
unit(t, c, q) == [type |-> t, content |-> c, question |-> q]

\* the units the loop body yields for one queued event, with
\* questions_seen and last_status as it leaves them
process_event(event) ==
    LET question == event.question IN
    IF event.type = "token"
    THEN [units |-> (IF question # NoLabel /\ question \notin questions_seen
                     THEN <<unit("question_start", "", question)>> ELSE <<>>)
                    \o <<unit("token", event.content, question)>>,
          questions_seen |-> IF question # NoLabel
                             THEN questions_seen \cup {question} ELSE questions_seen,
          last_status |-> last_status]
    ELSE IF event.type = "tool"
    THEN LET msg == IF question # NoLabel THEN <<"Searching", question>>
                    ELSE <<"Running", event.content>> IN
         [units |-> (IF msg # last_status THEN <<unit("status", msg, "")>> ELSE <<>>)
                    \o <<unit("tool", "start", question)>>,
          questions_seen |-> questions_seen,
          last_status |-> msg]
    ELSE [units |-> <<unit("tool", "end", question)>>,
          questions_seen |-> questions_seen,
          last_status |-> last_status]

\* How run_research can end: ainvoke raised; it returned a state whose
\* final_report is JSON text, is text json.loads rejects, or is empty; or it
\* returned nothing.
ResearchOutcomes == {"raised", "report", "bad report", "no report", "no result"}

\* the units stream_research yields once the loop is left
final_units(outcome) ==
    IF outcome = "report"
    THEN <<unit("status", "Compiling", ""), unit("result", "", ""), unit("done", "", "")>>
    ELSE IF outcome = "bad report"
    THEN <<unit("status", "Compiling", ""), unit("error", "", ""), unit("done", "", "")>>
    ELSE <<unit("error", "", ""), unit("done", "", "")>>

\* stream_research up to the loop: the first status unit, then
\* asyncio.create_task(run_research())
research_start ==
    /\ spos = "init"
    /\ sent' = Append(sent, unit("status", "Starting", ""))
    /\ research_task' = "running"
    /\ spos' = "loop"
    /\ UNCHANGED <<streamVars, handlerVars, cacheVars, walkVars, matcherVars, metricVars,
                   research_outcome, questions_seen, last_status>>

\* company_researcher.ainvoke(input_state, config) inside run_research: the
\* engine calls the handler passed in config while the task runs
ainvoke_on_llm_start(r, q) ==
    /\ research_task = "running"
    /\ handler_on_llm_start(r, q)

ainvoke_on_chat_model_start(r, q) ==
    /\ research_task = "running"
    /\ handler_on_chat_model_start(r, q)

ainvoke_on_llm_new_token(r, token) ==
    /\ research_task = "running"
    /\ handler_on_llm_new_token(r, token)

ainvoke_on_tool_start(r) ==
    /\ research_task = "running"
    /\ handler_on_tool_start(r)

ainvoke_on_tool_end(r) ==
    /\ research_task = "running"
    /\ handler_on_tool_end(r)

\* run_research returns: ainvoke has returned or raised
run_research_returns ==
    /\ research_task = "running"
    /\ \E o \in ResearchOutcomes : research_outcome' = o
    /\ research_task' = "done"
    /\ UNCHANGED <<streamVars, handlerVars, cacheVars, walkVars, matcherVars, metricVars,
                   spos, questions_seen, last_status, sent>>

\* while not research_task.done(): enter the body or leave the loop
stream_loop_check ==
    /\ spos = "loop"
    /\ spos' = IF research_task = "done" THEN "after" ELSE "get"
    /\ UNCHANGED <<streamVars, handlerVars, cacheVars, walkVars, matcherVars, metricVars,
                   research_task, research_outcome, questions_seen, last_status, sent>>

\* asyncio.wait_for(event_queue.get(), timeout=0.1) returns an event; the
\* body yields its units
stream_loop_event ==
    /\ spos = "get"
    /\ queue # <<>>
    /\ LET out == process_event(Head(queue)) IN
        /\ sent' = sent \o out.units
        /\ questions_seen' = out.questions_seen
        /\ last_status' = out.last_status
    /\ queue' = Tail(queue)
    /\ spos' = "loop"
    /\ UNCHANGED <<streamVars, cacheVars, walkVars, matcherVars, metricVars,
                   parent_run_id, started, current_question,
                   run_to_question, run_to_parent, produced,
                   research_task, research_outcome>>

\* the queue stayed empty for the timeout: asyncio.TimeoutError, continue
stream_loop_timeout ==
    /\ spos = "get"
    /\ queue = <<>>
    /\ spos' = "loop"
    /\ UNCHANGED <<streamVars, handlerVars, cacheVars, walkVars, matcherVars, metricVars,
                   research_task, research_outcome, questions_seen, last_status, sent>>

\* after the loop: await research_task, then the error or the result, and
\* done
stream_research_finish ==
    /\ spos = "after"
    /\ sent' = sent \o final_units(research_outcome)
    /\ spos' = "end"
    /\ UNCHANGED <<streamVars, handlerVars, cacheVars, walkVars, matcherVars, metricVars,
                   research_task, research_outcome, questions_seen, last_status>>

\* ----------------------------------------------- company_matcher_stream
\* POST /agents/company_matcher/stream with the matcher loaded.  A blank
\* name or country is answered 400.  With a session_id the request derives
\* job_key and attaches to the job stream_hub.get_or_create returns: the
\* live job of the key, else a new one.  Without a session_id the code goes
\* on to stream_with_final_result(..., extract_result=extract_result), where
\* extract_result is a name local to run_job and defined nowhere else:
\* evaluating it raises NameError and the request is answered 500, before
\* tracked_stream is made.
company_matcher_stream(c) ==
    /\ request[c] # NoRequest
    /\ http_response[c] = "none"
    /\ LET r == request[c]
           k == job_key(r) IN
       IF strip(r.company_name) = <<>> \/ strip(r.country_of_establishment) = <<>>
       THEN /\ http_response' = [http_response EXCEPT ![c] = "400"]
            /\ UNCHANGED <<attached, jobs_by_key, created>>
       ELSE IF r.session_id # <<>>
       THEN /\ http_response' = [http_response EXCEPT ![c] = "stream"]
            /\ IF jobs_by_key[k] # NoJob /\ ~job_done[jobs_by_key[k]]
               THEN /\ attached' = [attached EXCEPT ![c] = jobs_by_key[k]]
                    /\ UNCHANGED <<jobs_by_key, created>>
               ELSE /\ created' = created + 1
                    /\ jobs_by_key' = [jobs_by_key EXCEPT ![k] = created + 1]
                    /\ attached' = [attached EXCEPT ![c] = created + 1]
       ELSE /\ http_response' = [http_response EXCEPT ![c] = "500"]
            /\ UNCHANGED <<attached, jobs_by_key, created>>
    /\ UNCHANGED <<streamVars, handlerVars, cacheVars, researchVars, walkVars, metricVars,
                   request, job_done>>

\* run_job of matcher job j reaches job.finish()
matcher_job_finishes(j) ==
    /\ j <= created
    /\ ~job_done[j]
    /\ job_done' = [job_done EXCEPT ![j] = TRUE]
    /\ UNCHANGED <<streamVars, handlerVars, cacheVars, researchVars, walkVars, metricVars,
                   request, http_response, attached, jobs_by_key, created>>

\* ------------------------------------------ tavily_search_tool and cache
\* get_cached: the cached entry, or NoEntry when there is no client, the
\* server does not answer, or the key is absent or expired
get_cached(query, max_results, store) ==
    LET key == make_cache_key(query, max_results) IN
    IF redis_up /\ store[key] # NoEntry /\ now < store[key].expires
    THEN store[key] ELSE NoEntry

\* set_cached: client.setex(key, CACHE_TTL, response); nothing is stored
\* when there is no client or the server does not answer
set_cached(query, max_results, response) ==
    IF redis_up
    THEN [redis EXCEPT ![make_cache_key(query, max_results)] =
              [response |-> response, expires |-> now + CACHE_TTL]]
    ELSE redis

\* the responses the for loop of tavily_search_tool finds in the cache
\* from query i on, up to the first query that is not found
RECURSIVE hits_from(_, _, _)
hits_from(t, i, store) ==
    IF i > Len(args[t].queries) THEN <<>>
    ELSE LET e == get_cached(args[t].queries[i], args[t].max_results, store) IN
         IF e = NoEntry THEN <<>>
         ELSE <<e.response>> \o hits_from(t, i + 1, store)

\* The for loop of tavily_search_tool from query i on, up to its next await:
\* every query found in the cache is read; at the first query that is not
\* found client.search is called and the task is suspended.  calls is the
\* list of API calls so far, read the uses to record before the loop goes on.
run_loop(t, i, store, calls, read) ==
    LET hits == hits_from(t, i, store)
        j == i + Len(hits)
        qs == args[t].queries
    IN  /\ lookups' = [lookups EXCEPT ![t] = @
              \o [k \in 1..Len(hits) |->
                    [query |-> qs[i + k - 1], found |-> TRUE]]
              \o (IF j <= Len(qs)
                  THEN <<[query |-> qs[j], found |-> FALSE]>> ELSE <<>>)]
        /\ uses' = [uses EXCEPT ![t] = @ \o read
              \o [k \in 1..Len(hits) |->
                    [query |-> qs[i + k - 1], response |-> hits[k],
                     from |-> "cache", stored |-> TRUE]]]
        /\ qi' = [qi EXCEPT ![t] = j]
        /\ IF j <= Len(qs)
           THEN /\ tpc' = [tpc EXCEPT ![t] = "awaiting"]
                /\ api_calls' = Append(calls,
                      [query |-> qs[j], max_results |-> args[t].max_results,
                       by |-> t, at |-> now,
                       after |-> {c \in 1..Len(calls) : calls[c].stored_at >= 0},
                       stored_at |-> 0 - 1])
           ELSE /\ tpc' = [tpc EXCEPT ![t] = "returned"]
                /\ api_calls' = calls
        /\ client' = IF i <= Len(qs) THEN redis_up ELSE client
        /\ outage' = (outage \/ (i <= Len(qs) /\ ~redis_up))

\* tavily_search_tool is called and runs to its first await or to its end
tool_call(t) ==
    /\ tpc[t] = "ready"
    /\ run_loop(t, 1, redis, api_calls, <<>>)
    /\ UNCHANGED <<streamVars, handlerVars, extraVars, args, redis, redis_up, now>>

\* the index in api_calls of the call that tool call t is waiting for
pending(t) ==
    CHOOSE c \in 1..Len(api_calls) :
        /\ api_calls[c].by = t
        /\ \A d \in 1..Len(api_calls) : api_calls[d].by = t => d <= c

\* client.search returns response c: set_cached, the results are read, and
\* the loop goes on with the next query
tool_search_returns(t) ==
    /\ tpc[t] = "awaiting"
    /\ LET c == pending(t)
           q == args[t].queries[qi[t]]
           store == set_cached(q, args[t].max_results, c)
           key == make_cache_key(q, args[t].max_results)
           read == <<[query |-> q, response |-> c, from |-> "api",
                      stored |-> store[key] # NoEntry /\ store[key].response = c]>>
           calls == IF redis_up
                    THEN [api_calls EXCEPT ![c].stored_at = now] ELSE api_calls
       IN  /\ redis' = store
           /\ run_loop(t, qi[t] + 1, store, calls, read)
    /\ UNCHANGED <<streamVars, handlerVars, extraVars, args, redis_up, now>>

\* client.search raises: the except clause records the error for the query
\* and the loop goes on with the next query
tool_search_raises(t) ==
    /\ tpc[t] = "awaiting"
    /\ run_loop(t, qi[t] + 1, redis, api_calls, <<>>)
    /\ UNCHANGED <<streamVars, handlerVars, extraVars, args, redis, redis_up, now>>

\* time passes: half a TTL period
clock_advance ==
    /\ now < MaxTicks * (CACHE_TTL \div 2)
    /\ now' = now + (CACHE_TTL \div 2)
    /\ UNCHANGED <<streamVars, handlerVars, extraVars, args, tpc, qi, redis, redis_up, outage,
                   client, lookups, api_calls, uses>>

\* the Redis server stops answering (one outage is followed)
redis_down ==
    /\ redis_up
    /\ ~outage
    /\ redis_up' = FALSE
    /\ outage' = TRUE
    /\ UNCHANGED <<streamVars, handlerVars, extraVars, args, tpc, qi, redis, client, now,
                   lookups, api_calls, uses>>

\* the Redis server answers again
redis_restored ==
    /\ ~redis_up
    /\ redis_up' = TRUE
    /\ UNCHANGED <<streamVars, handlerVars, extraVars, args, tpc, qi, redis, outage, client, now,
                   lookups, api_calls, uses>>

\* ------------------------------------------------------------------ Next
CallerStep(c) ==
    \/ get_or_create_acquire(c)
    \/ get_or_create_lookup(c)
    \/ get_or_create_create(c)
    \/ subscribe(c)
    \/ subscribe_acquire(c)
    \/ subscribe_check(c)
    \/ subscribe_wake(c)
    \/ subscribe_yield(c)
    \/ subscribe_next(c)

RunnerStep(j) ==
    \/ run_job_start(j)
    \/ runner_start(j)
    \/ stream_next_record(j)
    \/ stream_engine_raises(j)
    \/ stream_extract(j)
    \/ stream_tail(j)
    \/ stream_end(j)
    \/ runner_append(j)
    \/ runner_flush(j)
    \/ runner_finish(j)

Next ==
    \/ \E c \in Callers : CallerStep(c)
    \/ \E j \in JobIds : RunnerStep(j)

Spec == Init /\ [][Next]_vars

SpecRunner == InitRunner /\ [][Next]_vars

\* The steps of c's subscribe generator.  The consumer of c2 keeps pulling;
\* c1's consumer may stall at any yield, but the body of its with block has
\* no suspension point and always runs to the end.
SubscriberStep(c) ==
    \/ subscribe_acquire(c)
    \/ subscribe_check(c)
    \/ subscribe_wake(c)
    \/ subscribe_yield(c)
    \/ subscribe_next(c)

LiveSpec ==
    /\ InitLive
    /\ [][Next]_vars
    /\ WF_vars(SubscriberStep("c2"))
    /\ WF_vars(subscribe_check("c1"))

\* Two requests with one key reading from the start, over the short engine
\* traces; the client of c1 may disconnect.
InitCancel ==
    /\ InitLive
    /\ cursor["c2"] = 0

NextCancel ==
    \/ Next
    \/ subscribe_cancel("c1")
    \/ subscribe_cancel_release("c1")

\* The event loop runs every task that can run: the runner, the other
\* subscriber (whose consumer keeps pulling) and the cancelled wait.
SpecCancel ==
    /\ InitCancel
    /\ [][NextCancel]_vars
    /\ WF_vars(\E j \in JobIds : RunnerStep(j))
    /\ WF_vars(CallerStep("c2"))
    /\ WF_vars(subscribe_cancel_release("c1"))

\* One request, subscribing from the start, over the runs of the end-to-end
\* scenario.
InitScenario ==
    /\ script \in ScenarioScripts
    /\ \E k \in Keys : reqKey = [c \in Callers |-> IF c = "c1" THEN k ELSE "none"]
    /\ cursor = [c \in Callers |-> 0]
    /\ InitState

SpecScenario == InitScenario /\ [][Next]_vars

\* One request, subscribing from the start, over the runs whose metrics are
\* looked at.
InitMetrics ==
    /\ script \in MetricsScripts
    /\ \E k \in Keys : reqKey = [c \in Callers |-> IF c = "c1" THEN k ELSE "none"]
    /\ cursor = [c \in Callers |-> 0]
    /\ InitState

SpecMetrics == InitMetrics /\ [][Next]_vars

\* A fresh handler and the run tree of the execution it is attached to.
InitHandler ==
    /\ script = [records |-> <<>>, raises |-> FALSE]
    /\ reqKey = [c \in Callers |-> "none"]
    /\ cursor = [c \in Callers |-> 0]
    /\ InitHubState
    /\ parent_run_id \in [Runs -> Runs \cup {NoRun}]
    /\ parent_run_id["graph"] = NoRun
    /\ parent_run_id["node"] \in {"graph", NoRun}
    /\ \A r \in LlmRuns : parent_run_id[r] \in ChainRuns \cup {NoRun}
    /\ \A r \in ToolRuns : parent_run_id[r] = NoRun
    /\ HandlerInit
    /\ ExtraIdle
    /\ CacheIdle

NextHandler ==
    \/ \E r \in LlmRuns, q \in Labels \cup {NoLabel} : handler_on_llm_start(r, q)
    \/ \E r \in LlmRuns, q \in Labels \cup {NoLabel} : handler_on_chat_model_start(r, q)
    \/ \E r \in LlmRuns, token \in Tokens : handler_on_llm_new_token(r, token)

SpecHandler == InitHandler /\ [][NextHandler]_vars

\* A fresh handler attached to an execution that also runs tools: tool t
\* under the node or under nothing, tool u under t, a model run under a
\* chain, under t or under nothing.
InitLabels ==
    /\ script = [records |-> <<>>, raises |-> FALSE]
    /\ reqKey = [c \in Callers |-> "none"]
    /\ cursor = [c \in Callers |-> 0]
    /\ InitHubState
    /\ parent_run_id \in [Runs -> Runs \cup {NoRun}]
    /\ parent_run_id["graph"] = NoRun
    /\ parent_run_id["node"] = "graph"
    /\ parent_run_id["t"] \in {"node", NoRun}
    /\ parent_run_id["u"] = "t"
    /\ \A r \in LlmRuns : parent_run_id[r] \in ChainRuns \cup {"t", NoRun}
    /\ HandlerInit
    /\ ExtraIdle
    /\ CacheIdle

NextLabels ==
    \/ \E r \in LlmRuns, q \in Labels \cup {NoLabel} : handler_on_llm_start(r, q)
    \/ \E r \in LlmRuns, q \in Labels \cup {NoLabel} : handler_on_chat_model_start(r, q)
    \/ \E r \in LlmRuns, token \in Tokens : handler_on_llm_new_token(r, token)
    \/ \E r \in ToolRuns : handler_on_tool_start(r)
    \/ \E r \in ToolRuns : handler_on_tool_end(r)

SpecLabels == InitLabels /\ [][NextLabels]_vars

\* One /research/stream request: a fresh handler on the execution
\* graph > node > {a, t}, t > {b, u}; the engine makes its callbacks while
\* run_research runs.
InitResearch ==
    /\ script = [records |-> <<>>, raises |-> FALSE]
    /\ reqKey = [c \in Callers |-> "none"]
    /\ cursor = [c \in Callers |-> 0]
    /\ InitHubState
    /\ parent_run_id = [r \in Runs |-> IF r = "graph" THEN NoRun
                                       ELSE IF r = "node" THEN "graph"
                                       ELSE IF r \in {"a", "t"} THEN "node" ELSE "t"]
    /\ HandlerInit
    /\ ExtraIdle
    /\ CacheIdle

NextResearch ==
    \/ research_start
    \/ \E r \in LlmRuns, q \in Labels \cup {NoLabel} : ainvoke_on_llm_start(r, q)
    \/ \E r \in LlmRuns, q \in Labels \cup {NoLabel} : ainvoke_on_chat_model_start(r, q)
    \/ \E r \in LlmRuns, token \in Tokens : ainvoke_on_llm_new_token(r, token)
    \/ \E r \in ToolRuns : ainvoke_on_tool_start(r)
    \/ \E r \in ToolRuns : ainvoke_on_tool_end(r)
    \/ run_research_returns
    \/ stream_loop_check
    \/ stream_loop_event
    \/ stream_loop_timeout
    \/ stream_research_finish

SpecResearch == InitResearch /\ [][NextResearch]_vars

\* One call of _get_question_for_run on a handler whose dicts hold anything:
\* a recorded parent for each model and tool run, cycles included.
InitWalk ==
    /\ script = [records |-> <<>>, raises |-> FALSE]
    /\ reqKey = [c \in Callers |-> "none"]
    /\ cursor = [c \in Callers |-> 0]
    /\ InitHubState
    /\ parent_run_id = [r \in Runs |-> NoRun]
    /\ started = [r \in LlmRuns |-> Unstarted]
    /\ current_question = "B"
    /\ run_to_question \in [Runs -> {NoLabel, "A"}]
    /\ \A r \in Runs \ {"node", "u"} : run_to_question[r] = NoLabel
    /\ run_to_parent \in [Runs -> (Runs \ {"graph"}) \cup {NoRun}]
    /\ \A r \in ChainRuns : run_to_parent[r] = NoRun
    /\ queue = <<>>
    /\ produced = <<>>
    /\ ResearchIdle /\ MatcherIdle /\ MetricsIdle
    /\ CacheIdle
    /\ walk_key \in {"a", NoRun}
    /\ walk_parent \in {"b", "t", NoRun}
    /\ walk_pc = "idle"
    /\ walk_current = NoRun
    /\ walk_visited = {}
    /\ walk_order = <<>>
    /\ walk_result = NoLabel

NextWalk ==
    \/ walk_enter
    \/ walk_step
    \/ walk_exit

\* Two company-matcher stream requests with any bodies.
InitMatcher ==
    /\ script = [records |-> <<>>, raises |-> FALSE]
    /\ reqKey = [c \in Callers |-> "none"]
    /\ cursor = [c \in Callers |-> 0]
    /\ InitHubState
    /\ parent_run_id = [r \in Runs |-> NoRun]
    /\ HandlerInit
    /\ ResearchIdle /\ WalkIdle /\ MetricsIdle
    /\ CacheIdle
    /\ request \in [Callers -> MatcherRequests]
    /\ http_response = [c \in Callers |-> "none"]
    /\ attached = [c \in Callers |-> NoJob]
    /\ jobs_by_key = [k \in MatcherKeys |-> NoJob]
    /\ job_done = [j \in JobIds |-> FALSE]
    /\ created = 0

NextMatcher ==
    \/ \E c \in Callers : company_matcher_stream(c)
    \/ \E j \in JobIds : matcher_job_finishes(j)

SpecMatcher == InitMatcher /\ [][NextMatcher]_vars

\* the call runs on: nothing suspends it
SpecWalk == InitWalk /\ [][NextWalk]_vars /\ WF_vars(NextWalk)

\* Two concurrent tool calls: t1 with a list of two queries and the default
\* max_results, t2 with one query and any max_results; an empty cache.
InitCache ==
    /\ script = [records |-> <<>>, raises |-> FALSE]
    /\ reqKey = [c \in Callers |-> "none"]
    /\ cursor = [c \in Callers |-> 0]
    /\ InitHubState
    /\ parent_run_id = [r \in Runs |-> NoRun]
    /\ HandlerInit
    /\ ExtraIdle
    /\ \E qs \in Queries \X Queries, q \in Queries, m \in MaxResultsValues :
          args = [t \in ToolCalls |->
                    IF t = "t1" THEN [queries |-> qs, max_results |-> DefaultMaxResults]
                    ELSE [queries |-> <<q>>, max_results |-> m]]
    /\ tpc = [t \in ToolCalls |-> "ready"]
    /\ qi = [t \in ToolCalls |-> 1]
    /\ redis = [k \in CacheKeys |-> NoEntry]
    /\ redis_up \in BOOLEAN
    /\ outage = ~redis_up
    /\ client = FALSE
    /\ now = 0
    /\ lookups = [t \in ToolCalls |-> <<>>]
    /\ api_calls = <<>>
    /\ uses = [t \in ToolCalls |-> <<>>]

NextCache ==
    \/ \E t \in ToolCalls : tool_call(t) \/ tool_search_returns(t) \/ tool_search_raises(t)
    \/ clock_advance
    \/ redis_down
    \/ redis_restored

SpecCache == InitCache /\ [][NextCache]_vars

\* A StreamJob constructed on its own, with two subscribers about to call
\* subscribe(cursor) on it.
InitJob ==
    /\ script = [records |-> <<>>, raises |-> FALSE]
    /\ reqKey = [c \in Callers |-> "none"]
    /\ cursor \in [Callers -> Cursors]
    /\ hubLock = Free
    /\ hubJobs = [k \in Keys |-> NoJob]
    /\ nJobs = 1
    /\ jobKey = [j \in JobIds |-> "none"]
    /\ events = [j \in JobIds |-> <<>>]
    /\ done = [j \in JobIds |-> FALSE]
    /\ jobLock = [j \in JobIds |-> Free]
    /\ finishCalls = [j \in JobIds |-> 0]
    /\ error = [j \in JobIds |-> "None"]
    /\ rpc = [j \in JobIds |-> "none"]
    /\ pos = [j \in JobIds |-> 0]
    /\ phase = [j \in JobIds |-> "events"]
    /\ tail = [j \in JobIds |-> <<>>]
    /\ final_output = [j \in JobIds |-> "none"]
    /\ extracted = [j \in JobIds |-> "no"]
    /\ step_id = [j \in JobIds |-> FALSE]
    /\ chunk = [j \in JobIds |-> "none"]
    /\ flush = [j \in JobIds |-> "no"]
    /\ engineRuns = [j \in JobIds |-> [astream_events |-> 0, ainvoke |-> 0]]
    /\ pc = [c \in Callers |-> "got"]
    /\ job = [c \in Callers |-> nJobs]
    /\ idx = [c \in Callers |-> 0]
    /\ to_yield = [c \in Callers |-> <<>>]
    /\ sdone = [c \in Callers |-> FALSE]
    /\ recv = [c \in Callers |-> <<>>]
    /\ attachedDone = [c \in Callers |-> FALSE]
    /\ parent_run_id = [r \in Runs |-> NoRun]
    /\ HandlerInit
    /\ ExtraIdle
    /\ CacheIdle

NextJob ==
    \/ \E j \in JobIds : job_append(j) \/ job_finish(j)
    \/ \E c \in Callers : subscribe(c) \/ SubscriberStep(c)

SpecJob == InitJob /\ [][NextJob]_vars

\* ---------------------------------------------------------------- claims
RunnersStarted(k) == {j \in JobIds : jobKey[j] = k /\ rpc[j] # "none"}
Returned(k) == {c \in Callers : reqKey[c] = k /\ job[c] # NoJob}

\* C1: concurrent get_or_create calls with one key start exactly one runner
\* task, and every call that has returned holds the same StreamJob.
SingleExecution ==
    \A k \in Keys :
        /\ Cardinality(RunnersStarted(k)) <= 1
        /\ Returned(k) # {} => Cardinality(RunnersStarted(k)) = 1
        /\ \A c \in Returned(k), d \in Returned(k) : job[c] = job[d]

\* both calls were in flight together and both have returned
SingleExecutionWitness ==
    /\ \A c \in Callers : job[c] # NoJob
    /\ nJobs = 1
    /\ \E c \in Callers : pc[c] = "got"

\* C2: a subscriber from cursor 0 attached before completion and one attached
\* after completion both end with the job's full event log.
ReplayEquivalence ==
    \A c \in Callers, d \in Callers :
        ( /\ pc[c] = "end" /\ pc[d] = "end"
          /\ job[c] = job[d]
          /\ cursor[c] = 0 /\ cursor[d] = 0
          /\ ~attachedDone[c] /\ attachedDone[d] )
        => /\ recv[c] = recv[d]
           /\ recv[c] = events[job[c]]

ReplayEquivalenceWitness ==
    /\ pc["c1"] = "end" /\ pc["c2"] = "end"
    /\ cursor["c1"] = 0 /\ cursor["c2"] = 0
    /\ ~attachedDone["c1"] /\ attachedDone["c2"]
    /\ Len(events[job["c1"]]) >= 3

\* C3: a subscriber resuming from cursor c, 0 <= c <= len(events), has
\* received exactly events[c:] when its sequence terminates.
GapDuplicateFreedom ==
    \A c \in Callers :
        (pc[c] = "end" /\ 0 <= cursor[c] /\ cursor[c] <= Len(events[job[c]]))
        => recv[c] = SubSeq(events[job[c]], cursor[c] + 1, Len(events[job[c]]))

\* a subscriber that resumed from cursor 1 while the runner was still
\* appending has terminated
GapDuplicateFreedomWitness ==
    \E c \in Callers :
        /\ pc[c] = "end"
        /\ cursor[c] = 1
        /\ ~attachedDone[c]
        /\ Len(recv[c]) >= 2

\* C4: once a job's done flag is true its event log never changes again.
NoEventsAfterFinish ==
    [][\A j \in JobIds : done[j] => events'[j] = events[j]]_vars

\* a finished job with a non-empty log while its subscriber is still reading
NoEventsAfterFinishWitness ==
    \E j \in JobIds :
        /\ done[j]
        /\ rpc[j] = "ended"
        /\ Len(events[j]) >= 2
        /\ \E c \in Callers : job[c] = j /\ pc[c] = "yield"

\* C5: after finish() every subscribe sequence whose consumer keeps pulling
\* terminates, whether it was waiting, yielding or started later.
Subscribed(c) == pc[c] \in {"loop", "locked", "waiting", "woken", "yield"}

SubscribersTerminate ==
    (Subscribed("c2") /\ done[job["c2"]]) ~> (pc["c2"] = "end")

\* an empty finished log: the subscriber was waiting and finish() woke it
SubscribersTerminateWitness ==
    /\ pc["c2"] = "woken"
    /\ done[job["c2"]]
    /\ events[job["c2"]] = <<>>

Count(s, x) == Cardinality({i \in 1..Len(s) : s[i] = x})

\* the engine has raised in the run that drives job j
EngineRaised(j) == script.raises /\ phase[j] # "events"

\* C6: if the engine raises, a subscriber from cursor 0 receives exactly one
\* error event immediately followed by exactly one done event, and no result.
OneTerminalPairOnFailure ==
    \A c \in Callers :
        (pc[c] = "end" /\ EngineRaised(job[c]))
        => LET r == recv[c] IN
            /\ Len(r) >= 2
            /\ r[Len(r) - 1] = "error"
            /\ r[Len(r)] = "done"
            /\ Count(r, "error") = 1
            /\ Count(r, "done") = 1
            /\ Count(r, "result") = 0

\* C7: the event log of a completed job contains exactly one done event and
\* it is the last element.
OneDoneLast ==
    \A j \in JobIds :
        done[j] => /\ Len(events[j]) >= 1
                   /\ events[j][Len(events[j])] = "done"
                   /\ Count(events[j], "done") = 1

\* C8: on every path a runner that has stopped has called job.finish()
\* exactly once, so done is true.
FinishExactlyOnce ==
    \A j \in JobIds :
        rpc[j] \in {"ended", "crashed"} => finishCalls[j] = 1 /\ done[j]

RECURSIVE translate_all(_)
translate_all(rs) ==
    IF rs = <<>> THEN <<>> ELSE translate(Head(rs)) \o translate_all(Tail(rs))

RECURSIVE observe_all(_, _)
observe_all(fo, rs) ==
    IF rs = <<>> THEN fo ELSE observe_all(observe_event(fo, Head(rs)), Tail(rs))

\* what the stream loop has appended when extraction starts
StreamedBeforeExtraction ==
    translate_all(script.records) \o (IF script.raises THEN <<"error">> ELSE <<>>)

\* the log of the run in which every tracker call succeeds
LogWithWorkingTracker(kind) ==
    LET fo == observe_all("none", script.records) IN
    StreamedBeforeExtraction
        \o after_events(IF fo = "none" THEN "no"
                        ELSE extract_result(kind, fo, TRUE, FALSE))

\* C9: a tracker exception never changes the job's event sequence: it is the
\* sequence of the run in which the tracker calls succeeded.
TrackerNeverAffectsStream ==
    \A j \in JobIds :
        rpc[j] \in {"ended", "crashed"} => events[j] = LogWithWorkingTracker(jobKey[j])

\* C10: when the extraction function throws, the events streamed before stay
\* in the log, exactly one error event takes the place of the result event,
\* and the log then ends with done.
ExtractionFailureKeepsProgress ==
    \A j \in JobIds :
        extracted[j] = "throw" =>
            LET pre == StreamedBeforeExtraction IN
            /\ events[j] \in {pre, pre \o <<"error">>, pre \o <<"error", "done">>}
            /\ rpc[j] \in {"flush", "finish", "ended"}
                  => events[j] = pre \o <<"error", "done">>

\* extraction threw after progress had been streamed, and the job completed
ExtractionFailureKeepsProgressWitness ==
    \E j \in JobIds :
        /\ extracted[j] = "throw"
        /\ done[j]
        /\ Len(events[j]) >= 4
        /\ events[j][1] = "llm_start"

\* C11: over all requests with one key (first request, duplicates,
\* reconnects during and after the run) graph.astream_events is started at
\* most once, graph.ainvoke is never called, and a result event comes from
\* the final output observed in the event stream.
EngineRunsAtMostOnce ==
    /\ \A k \in Keys :
        Cardinality({j \in JobIds : jobKey[j] = k /\ engineRuns[j].astream_events > 0}) <= 1
    /\ \A j \in JobIds :
        /\ engineRuns[j].astream_events <= 1
        /\ engineRuns[j].ainvoke = 0
        /\ Count(events[j], "result") > 0 =>
              /\ final_output[j] # "none"
              /\ final_output[j] = observe_all("none", SubSeq(script.records, 1, pos[j]))

\* the first request ran the engine, a reconnect after completion replayed
\* the result
EngineRunsAtMostOnceWitness ==
    /\ pc["c1"] = "end" /\ pc["c2"] = "end"
    /\ ~attachedDone["c1"] /\ attachedDone["c2"]
    /\ engineRuns[job["c2"]].astream_events = 1
    /\ Count(recv["c2"], "result") = 1

\* C17: once a key is registered the hub never removes or replaces its job,
\* whether the job is running, finished normally or finished after a
\* failure; a later get_or_create call for the key returns that job and
\* starts no runner.
KeyKeepsItsJob ==
    [][\A k \in Keys :
          hubJobs[k] # NoJob =>
              /\ hubJobs'[k] = hubJobs[k]
              /\ \A j \in JobIds : jobKey[j] # k => jobKey'[j] # k
              /\ \A c \in Callers :
                    reqKey[c] = k /\ job[c] = NoJob /\ job'[c] # NoJob =>
                        /\ job'[c] = hubJobs[k]
                        /\ nJobs' = nJobs
                        /\ \A j \in JobIds : rpc[j] = "none" => rpc'[j] = "none"]_vars

\* a request that arrived after the job had finished after a failure got
\* the finished job
KeyKeepsItsJobWitness ==
    /\ pc["c1"] = "end"
    /\ pc["c2"] = "got"
    /\ job["c2"] = job["c1"]
    /\ done[job["c2"]]
    /\ Count(events[job["c2"]], "error") = 1
    /\ nJobs = 1

IsPrefix(s, t) == Len(s) <= Len(t) /\ SubSeq(t, 1, Len(s)) = s

\* the chunks stream_with_final_result has yielded so far, in yield order
Yielded(j) ==
    translate_all(SubSeq(script.records, 1, pos[j]))
        \o (IF script.raises /\ phase[j] # "events" THEN <<"error">> ELSE <<>>)
        \o (IF phase[j] = "tail"
            THEN LET out == after_events(extracted[j]) IN
                 SubSeq(out, 1, Len(out) - Len(tail[j]))
            ELSE <<>>)

\* C18: what a subscriber from cursor 0 has received so far is always a
\* prefix of the job's log; the log is the translator's events in yield
\* order (the last yielded chunk may still wait to be appended); the log
\* only grows at its end.
PrefixDelivery ==
    /\ [](\A c \in Callers :
            job[c] # NoJob /\ cursor[c] <= 0 => IsPrefix(recv[c], events[job[c]]))
    /\ [](\A j \in JobIds :
            events[j] \o (IF rpc[j] = "append" THEN <<chunk[j]>> ELSE <<>>) = Yielded(j))
    /\ [][\A j \in JobIds : IsPrefix(events[j], events'[j])]_vars

\* a subscriber from cursor 0 holds a proper, non-empty prefix of the log of
\* a job that is still running
PrefixDeliveryWitness ==
    /\ job["c1"] # NoJob
    /\ ~done[job["c1"]]
    /\ Len(recv["c1"]) >= 1
    /\ Len(recv["c1"]) < Len(events[job["c1"]])

\* the engine delivered its terminal completion to job j's run without raising
TerminalCompletionDelivered(j) ==
    /\ ~script.raises
    /\ pos[j] = Len(script.records)
    /\ \E i \in 1..Len(script.records) :
          script.records[i].event = "on_chain_end" /\ script.records[i].root

\* C19: a run in which the engine delivers a terminal completion without
\* raising and the extraction function does not throw ends with exactly one
\* result event, placed immediately before done; no log ever holds more than
\* one result event.
ExactlyOneResult ==
    \A j \in JobIds :
        /\ Count(events[j], "result") <= 1
        /\ rpc[j] = "ended" /\ TerminalCompletionDelivered(j) /\ extracted[j] # "throw" =>
              /\ Count(events[j], "result") = 1
              /\ Len(events[j]) >= 2
              /\ SubSeq(events[j], Len(events[j]) - 1, Len(events[j])) = <<"result", "done">>

Cancelled(c) == pc[c] \in {"cancelling", "cancelled"}
Running == {"pull", "append", "flush", "finish"}
\* the position of the runner of the job c subscribed to
RunnerOf(c) == IF job[c] = NoJob THEN "none" ELSE rpc[job[c]]

\* C12: cancelling subscriber c1 while it waits on the condition or is
\* suspended at a yield leaves the job's lock released, changes neither the
\* log nor the runner nor the hub, the runner of the job still runs to
\* completion, and the other subscriber, attached before or after the
\* cancellation, still receives the complete log.
CancellationIsLocal ==
    /\ [](\A c \in Callers : pc[c] = "cancelled" => \A j \in JobIds : jobLock[j] # c)
    /\ [][\A c \in Callers :
            Cancelled(c)' /\ pc'[c] # pc[c] =>
                UNCHANGED <<events, done, finishCalls, error, runnerVars, hubVars>>]_vars
    /\ [](\A j \in JobIds :
            pc["c2"] = "end" /\ job["c2"] = j => done[j] /\ recv["c2"] = events[j])
    /\ (pc["c1"] = "cancelled" /\ RunnerOf("c1") \in Running)
          ~> (RunnerOf("c1") = "ended" /\ pc["c2"] = "end")

\* c1 was cancelled inside self._cond.wait() while the runner was running,
\* and c2 has since received the whole log of the finished job
CancellationIsLocalWitness ==
    /\ pc["c1"] = "cancelled"
    /\ recv["c1"] = <<>>
    /\ Len(events[job["c1"]]) >= 2
    /\ pc["c2"] = "end"
    /\ recv["c2"] = events[job["c2"]]

\* C15: after the first finish call a later finish call, with or without an
\* error argument, leaves done and the recorded error as the first call set
\* them.
FinishIdempotent ==
    [][\A j \in JobIds : done[j] => done'[j] /\ error'[j] = error[j]]_vars

\* C16: append on a job whose done flag is set is rejected and leaves the
\* event log unchanged.
AppendAfterDoneRejected ==
    [][\A j \in JobIds : done[j] => events'[j] = events[j]]_vars

\* the engine emits tool_start("search"), tool_end("search") whose output
\* contains https://example.com, a terminal completion {"ok": true}, and ends
TheScenario ==
    /\ ~script.raises
    /\ script.records[1] = on_tool_start("search")
    /\ script.records[2] = on_tool_end("search", "text with https://example.com")
    /\ script.records[3].output = "ok"

\* C14: in the end-to-end scenario a fresh subscriber receives exactly
\* tool_start, tool_end with the source https://example.com, result, done.
EndToEndScenario ==
    TheScenario /\ pc["c1"] = "end" =>
        recv["c1"] = <<"tool_start", tool_end_data("search", TRUE), "result", "done">>

\* C13: the queue holds the token events in the order the engine produced
\* them, and each token produced by a run that was started with a label is
\* tagged with that label, whatever the interleaving of the runs.
TokenAttribution ==
    /\ Len(queue) = Len(produced)
    /\ \A i \in 1..Len(queue) :
        /\ queue[i].type = "token"
        /\ queue[i].content = produced[i].content
        /\ started[produced[i].run] \in Labels =>
              queue[i].question = started[produced[i].run]

\* two runs under one parent, labeled A and B, interleave a:x, b:y, a:x
TokenAttributionWitness ==
    /\ parent_run_id["a"] = "node" /\ parent_run_id["b"] = "node"
    /\ started["a"] = "A" /\ started["b"] = "B"
    /\ produced = <<[run |-> "a", content |-> "x"], [run |-> "b", content |-> "y"],
                    [run |-> "a", content |-> "x"]>>
    /\ queue[1].question = "A" /\ queue[2].question = "B" /\ queue[3].question = "A"

\* the queries whose lookup found nothing, and the queries sent to the API
queries_of(log) == [i \in 1..Len(log) |-> log[i].query]
NotFound(l) == ~l.found
MissedBy(t) == queries_of(SelectSeq(lookups[t], NotFound))
SentBy(t) ==
    LET mine == {c \in 1..Len(api_calls) : api_calls[c].by = t}
        RECURSIVE pick(_)
        pick(c) == IF c > Len(api_calls) THEN <<>>
                   ELSE (IF c \in mine THEN <<api_calls[c].query>> ELSE <<>>) \o pick(c + 1)
    IN  pick(1)
SameKeyText(c, d) ==
    /\ normalized(api_calls[c].query) = normalized(api_calls[d].query)
    /\ api_calls[c].max_results = api_calls[d].max_results

\* the API is called exactly for the queries whose lookup found nothing, and
\* with a working cache a response read from the API is in the cache by then
CalledIffMissed ==
    /\ \A t \in ToolCalls : SentBy(t) = MissedBy(t)
    /\ ~outage => \A t \in ToolCalls : \A i \in 1..Len(uses[t]) : uses[t][i].stored

\* C20 as stated: the API is called iff the lookup finds nothing, the
\* response is cached before it is used, and with a working cache no two API
\* calls for one normalized text and max_results are less than a TTL apart.
NoRepeatedCallWithinTTL ==
    /\ CalledIffMissed
    /\ ~outage =>
          \A c \in 1..Len(api_calls), d \in 1..Len(api_calls) :
              c < d /\ SameKeyText(c, d) =>
                  api_calls[d].at - api_calls[c].at >= CACHE_TTL

\* C20 amended: as stated, but the last part only for a call made after the
\* earlier response was written to the cache: the two are then at least a
\* TTL apart.
NoCallWhileCached ==
    /\ CalledIffMissed
    /\ ~outage =>
          \A d \in 1..Len(api_calls) : \A c \in api_calls[d].after :
              SameKeyText(c, d) =>
                  api_calls[d].at - api_calls[c].stored_at >= CACHE_TTL

\* with a working cache t1 waited for the API on its first query and then,
\* later than t2 had cached its response, found its second query, which is
\* spelled differently from t2's, in the cache
NoCallWhileCachedWitness ==
    /\ ~outage
    /\ Len(uses["t1"]) = 2
    /\ uses["t1"][1].from = "api"
    /\ uses["t1"][2].from = "cache"
    /\ LET mine == uses["t1"][1].response
           theirs == uses["t1"][2].response
       IN  /\ api_calls[theirs].by = "t2"
           /\ api_calls[theirs].query # uses["t1"][2].query
           /\ api_calls[mine].stored_at > api_calls[theirs].stored_at

\* ------------------------------------------------- top-level completion
IsRootCompletion(r) == r.event = "on_chain_end" /\ r.root

\* the chunks of job j's log that stream_agent_events made from records
Translated(j) ==
    SelectSeq(events[j], LAMBDA ch : ch \notin {"result", "error", "done"})

RECURSIVE payload_free(_)
payload_free(rs) ==
    IF rs = <<>> THEN <<>>
    ELSE (IF IsRootCompletion(Head(rs))
          THEN IF Head(rs).name = "LangGraph" THEN <<"node_end">> ELSE <<>>
          ELSE translate(Head(rs))) \o payload_free(Tail(rs))

NoLockWhileYielding ==
    /\ \A c \in Callers : pc[c] = "yield" => \A j \in JobIds : jobLock[j] # c
    /\ \A j \in JobIds :
          (/\ rpc[j] \in {"append", "finish"}
           /\ \A c \in Callers :
                 job[c] = j => pc[c] \in {"got", "yield", "end", "cancelled"})
          => ENABLED RunnerStep(j)

\* both subscribers stay suspended at a yield with chunks not handed on
\* while the runner has appended more and finished the job
NoLockWhileYieldingWitness ==
    /\ \A c \in Callers : pc[c] = "yield" /\ to_yield[c] # <<>> /\ job[c] = 1
    /\ done[1]
    /\ Len(events[1]) > Len(recv["c1"]) + Len(to_yield["c1"])

\* ------------------------------------------------------ label resolution
Labeled(x) == x # NoRun /\ run_to_question[x] # NoLabel

\* the n-th run above p on the recorded parent chain, p itself for n = 0
RECURSIVE Ancestor(_, _)
Ancestor(p, n) ==
    IF n = 0 \/ p = NoRun THEN p ELSE Ancestor(run_to_parent[p], n - 1)

\* the label of the nearest labeled run on the recorded chain from p
NearestLabeled(p) ==
    LET ns == {n \in 0..Cardinality(Runs) : Labeled(Ancestor(p, n))} IN
    IF ns = {} THEN NoLabel
    ELSE run_to_question[Ancestor(p, CHOOSE n \in ns : \A m \in ns : n <= m)]

\* the label the order of preference gives an event of run r
Preferred(r) ==
    LET p == parent_run_id[r] IN
    IF Labeled(r) THEN run_to_question[r]
    ELSE IF Labeled(p) THEN run_to_question[p]
    ELSE IF NearestLabeled(p) # NoLabel THEN NearestLabeled(p)
    ELSE current_question

\* C23: every event put on the queue is tagged with the label of its own
\* run, else of its parent, else of the nearest labeled ancestor on the
\* recorded parent chain, else with the most recently assigned label, which
\* is the label of the last run started with one (None before the first).
LabelPreference ==
    [][/\ Len(queue') > Len(queue) =>
             queue'[Len(queue')].question = Preferred(produced'[Len(produced')].run)
       /\ \A r \in LlmRuns :
             started[r] = Unstarted /\ started'[r] \in Labels =>
                 current_question' = started'[r]
       /\ current_question' # current_question =>
             \E r \in LlmRuns : started[r] = Unstarted /\ started'[r] = current_question'
      ]_vars

\* tool run u started below the unlabeled tool run t, and its event was
\* tagged with the label of the node above t, not with the latest label
LabelPreferenceWitness ==
    /\ parent_run_id["t"] = "node"
    /\ run_to_question["t"] = NoLabel
    /\ run_to_question["node"] = "A"
    /\ current_question = "B"
    /\ Len(produced) >= 2
    /\ produced[Len(produced)].run = "u"
    /\ queue[Len(queue)].question = "A"

\* the label a lookup made now for an event of run x returns
Resolved(x) == get_question_for_run(x, parent_run_id[x]).question

\* the other runs below the parent of r
Siblings(r) ==
    {x \in Runs \ {r} : parent_run_id[r] # NoRun /\ parent_run_id[x] = parent_run_id[r]}

\* C24: starting run r with a label changes the label resolved neither for
\* the parent of r nor for a sibling of r, when that one resolved to a label.
LabelOnlyInherited ==
    [][\A r \in LlmRuns :
          started[r] = Unstarted /\ started'[r] \in Labels =>
              \A x \in (Siblings(r) \cup {parent_run_id[r]}) \ {NoRun} :
                  Resolved(x) # NoLabel => Resolved(x)' = Resolved(x)]_vars

\* C26: once a lookup for a run has returned a label, every later lookup
\* for that run returns the same label.
StableLabel ==
    \A i \in 1..Len(queue) : \A k \in 1..Len(queue) :
        (i < k /\ produced[i].run = produced[k].run /\ queue[i].question # NoLabel)
        => queue[k].question = queue[i].question

\* ---------------------------------------------------- research stream
\* the units of the response that hand on an event of the handler
EventUnits == SelectSeq(sent, LAMBDA u : u.type \in {"token", "tool"})

\* C27: when stream_research has ended, the client has every event the
\* handler produced, in the order produced, and the response ends with done.
EveryEventDelivered ==
    spos = "end" =>
        /\ Len(EventUnits) = Len(produced)
        /\ \A i \in 1..Len(EventUnits) : EventUnits[i].content = produced[i].content
        /\ sent[Len(sent)].type = "done"

\* ------------------------------------------------------- ancestry walk
\* C29: a call of _get_question_for_run returns whatever the parent map
\* holds, and the walk visits no run twice.
AncestryWalkTerminates ==
    /\ (walk_key # NoRun \/ walk_parent # NoRun) ~> (walk_pc = "returned")
    /\ [](\A i \in 1..Len(walk_order) : \A k \in 1..Len(walk_order) :
             i # k => walk_order[i] # walk_order[k])
    /\ [](walk_visited = {walk_order[i] : i \in 1..Len(walk_order)})

\* the walk went round a cycle of the parent map, found no label, and the
\* call returned the most recent question
AncestryWalkTerminatesWitness ==
    /\ walk_pc = "returned"
    /\ Len(walk_order) >= 2
    /\ walk_current # NoRun
    /\ walk_current \in walk_visited
    /\ run_to_question[walk_current] = NoLabel
    /\ walk_result = current_question

\* ------------------------------------------- company matcher requests
\* C28: two requests attached to one hub job have the same session_id, the
\* same stripped lower-cased company name and the same stripped lower-cased
\* country.
SharedJobSameRequest ==
    \A c \in Callers : \A d \in Callers :
        (attached[c] # NoJob /\ attached[c] = attached[d]) =>
            /\ request[c].session_id = request[d].session_id
            /\ normalized(request[c].company_name) = normalized(request[d].company_name)
            /\ normalized(request[c].country_of_establishment)
                  = normalized(request[d].country_of_establishment)

\* C30: an answered request with a name, a country and no session_id was
\* answered with an event stream.
DirectPathServed ==
    \A c \in Callers :
        (/\ http_response[c] # "none"
         /\ request[c].session_id = <<>>
         /\ strip(request[c].company_name) # <<>>
         /\ strip(request[c].country_of_establishment) # <<>>)
        => http_response[c] = "stream"

\* ------------------------------------------------------- runner metrics
\* the tool_end chunks of a tool whose name contains "search"
SearchToolEnds == {tool_end_data(n, b) : n \in {"search", "web_search"}, b \in BOOLEAN}

\* C25: a flush hands over the number of llm_start chunks and the number of
\* tool_end chunks of search tools that the runner has appended to its job;
\* a job is flushed at most once, before it is finished, and the counters
\* change only in the runner's own stream loop.
MetricsFlush ==
    /\ [](\A j \in JobIds :
            /\ Len(flushed[j]) <= 1
            /\ flushed[j] # <<>> =>
                 /\ flushed[j][1].llm_calls = Count(events[j], "llm_start")
                 /\ flushed[j][1].search_calls =
                      Cardinality({i \in 1..Len(events[j]) : events[j][i] \in SearchToolEnds}))
    /\ [][\A j \in JobIds :
            /\ metrics'[j] # metrics[j] => rpc[j] = "pull" /\ rpc'[j] = "append"
            /\ flushed'[j] # flushed[j] =>
                 rpc[j] = "flush" /\ ~done[j] /\ finishCalls[j] = 0]_vars

\* a flush after a model call, a search and a tool that is no search
MetricsFlushWitness ==
    \E j \in JobIds :
        /\ flushed[j] # <<>>
        /\ flushed[j][1].llm_calls = 1
        /\ flushed[j][1].search_calls = 1
        /\ tool_end_data("finish_matching", FALSE) \in {events[j][i] : i \in 1..Len(events[j])}
        /\ done[j]

====
